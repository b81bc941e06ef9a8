----------------------------- MODULE PageProofs ----------------------------
(***************************************************************************)
(* Theorems about one browser tab, for every visit, every set of players   *)
(* and every bound.                                                        *)
(***************************************************************************)
EXTENDS PageProps, AegylaxStepProofs

(* A visit, with what is left of its bounds.                               *)
VisitType ==
    [ viewer : Players, reads : [Hooks -> Nat], leaves : Nat, nudging : BOOLEAN,
      presses : Nat, losses : Nat, probes : BOOLEAN, defenders : SUBSET Players,
      from : Nat, params : ParamSets, until : 0 .. MaxBlock ]

-----------------------------------------------------------------------------
(* The tab is one more user of the contract: whatever it and the others do *)
(* is a step of the contract or none of its business.                      *)

LEMMA ThereIsAnOperation ==
    ASSUME IInv, there
    PROVE  1 \in LobbyIds /\ 1 \in Ids(store)
BY StorageFields DEF IInv, there, LobbyIds, Ids

LEMMA BuyingOneProbe ==
    ASSUME IInv, there, NEW w \in Players, buyProbes(w, 1, 1)
    PROVE  Seated(w, 1)
<1>1. store.params \in ParamSets
  BY StorageFields DEF IInv
<1>2. store.params.maxProbesPerPlayer \in Nat \ {0}
  BY <1>1, ParamsAssumption DEF GameParams
<1>3. 1 \in 1 .. store.params.maxProbesPerPlayer
  BY <1>2
<1>4. QED
  BY <1>3 DEF Seated

LEMMA ChainIsTheContract ==
    ASSUME IInv, visit \in VisitType, Chain
    PROVE  Next
<1>1. CASE NextBlock
  BY <1>1 DEF NextBlock, Next
<1>2. CASE \E config \in Configs, d \in 0 .. MaxDeadline : createLobby(Author, config, d)
  BY <1>2, PageAssumption DEF Next
<1>3. ASSUME there PROVE 1 \in LobbyIds
  BY <1>3, ThereIsAnOperation
<1>4. ASSUME there, NEW w \in Players, Seated(w, 1) PROVE Next
  BY <1>3, <1>4 DEF Next
<1>5. ASSUME there, Lifecycle(1) PROVE Next
  BY <1>3, <1>5 DEF Next
<1>6. viewer \in Players /\ visit.defenders \subseteq Players
  BY DEF viewer, VisitType
<1>7. CASE /\ there
           /\ \/ \E w \in Players : joinLobby(w, 1)
              \/ \E w \in Players : leaveLobby(w, 1)
  BY <1>4, <1>7 DEF Seated
<1>8. CASE there /\ visit.probes /\ (buyProbes(viewer, 1, 1) \/ sendProbe(viewer, 1))
  BY <1>4, <1>6, <1>8, BuyingOneProbe DEF Seated
<1>9. CASE there /\ \E w \in visit.defenders : submitDefense(w, 1)
  BY <1>4, <1>6, <1>9 DEF Seated
<1>10. CASE there /\ (startOperation(1) \/ cancelLobby(1) \/ unlockRound(1) \/ expireAttack(1))
  BY <1>5, <1>10 DEF Lifecycle
<1>11. CASE there /\ \E hits \in SUBSET Defenders(room), withProofs \in BOOLEAN :
                        revealAndResolve(1, withProofs, hits)
  BY <1>5, <1>11 DEF Lifecycle, Scored, room
<1>12. QED
  BY <1>1, <1>2, <1>7, <1>8, <1>9, <1>10, <1>11 DEF Chain

LEMMA ClaimIsTheContract ==
    ASSUME IInv, there, visit \in VisitType, NEW pc,
           claimMined(pc) \/ settleMined(pc)
    PROVE  [Next]_vars
<1>1. 1 \in LobbyIds /\ viewer \in Players
  BY ThereIsAnOperation DEF viewer, VisitType
<1>2. CASE claimMined(pc)
  <2>1. claim \/ UNCHANGED vars
    BY <1>2 DEF claimMined, vars
  <2>2. ASSUME claim PROVE Seated(viewer, 1)
    BY <2>2 DEF claim, Seated
  <2>3. QED
    BY <1>1, <2>1, <2>2 DEF Next
<1>3. CASE settleMined(pc)
  <2>1. settleCreator(1) \/ UNCHANGED vars
    BY <1>3 DEF settleMined, vars
  <2>2. ASSUME settleCreator(1) PROVE Lifecycle(1)
    BY <2>2 DEF Lifecycle
  <2>3. QED
    BY <1>1, <2>1, <2>2 DEF Next
<1>4. QED
  BY <1>2, <1>3

-----------------------------------------------------------------------------
(* What the chain never takes back about the one operation.                *)

CalledOff == there /\ room.status = "CANCELLED"
Decided   == there /\ room.status = "RESOLVED"
Over      == there /\ room.ending # "NONE"
Judged    == there /\ room.resolvedAtBlock # 0
Airborne  == there /\ block >= attackOf(1).launchBlock
Landed    == there /\ block >= attackOf(1).impactBlock

Forward ==
    /\ there => there'
    /\ CalledOff => CalledOff'
    /\ Decided => Decided'
    /\ Over => Over'
    /\ Judged => Judged'
    /\ Airborne => Airborne'
    /\ Landed => Landed'

LEMMA RoomGoesForward ==
    ASSUME NEW n \in Nat, NEW x \in SoundLobby, NEW y, NEW a, NEW b,
           FairLobby(n, x, a), Linked(x, a), RoomMove(x, y, a, b)
    PROVE  /\ x.status = "CANCELLED" => y.status = "CANCELLED"
           /\ x.status = "RESOLVED" => y.status = "RESOLVED"
           /\ x.ending # "NONE" => y.ending # "NONE"
           /\ x.resolvedAtBlock # 0 => y.resolvedAtBlock # 0
<1>1. /\ x.ending = "NONE" <=> x.status \in {"OPEN", "ACTIVE"}
      /\ x.ending = "COMPLETED" <=> x.status = "RESOLVED"
      /\ x.ending = "COMPLETED" => a.revealed
  BY LobbyFields DEF OneStory, Linked
<1>2. CASE Kept(x, y)
  BY <1>1, <1>2 DEF Kept, Resting, ClosedUnfilled, SameRound, SameVerdict
<1>3. CASE Reseated(x, y)
  BY <1>1, <1>3 DEF Reseated, SameRound, SameVerdict
<1>4. CASE Acted(x, y)
  BY <1>1, <1>4 DEF Acted, Begun, SameVerdict
<1>5. CASE Scored1(x, y)
  BY <1>1, <1>5 DEF Scored1, Begun, SameVerdict
<1>6. CASE Judged1(x, y)
  BY <1>1, <1>6 DEF Judged1, Begun, FairLobby
<1>7. CASE Expired(x, y) /\ ~a.revealed
  BY <1>1, <1>7 DEF Expired, SameRound, SameVerdict
<1>8. CASE Paid1(x, y)
  BY <1>1, <1>8 DEF Paid1, SameRound, SameVerdict
<1>9. QED
  BY <1>2, <1>3, <1>4, <1>5, <1>6, <1>7, <1>8 DEF RoomMove

LEMMA ChainGoesForward ==
    ASSUME FairPlay, [Next]_vars
    PROVE  Forward
<1>1. FairPlay' /\ IInv /\ Fair(block, store)
  BY NextFair DEF FairPlay
<1>2. CASE block' = block + 1 /\ store' = store
  <2>1. /\ there' = there /\ room' = room /\ attackOf(1)' = attackOf(1)
    BY <1>2 DEF there, LobbyIds, room, lobbyOf, attackOf
  <2>2. ASSUME there PROVE /\ attackOf(1).launchBlock \in Nat
                           /\ attackOf(1).impactBlock \in Nat /\ block \in Nat
    BY <1>1, <2>2, ThereIsAnOperation, LobbyOf DEF IInv, attackOf, lobbyOf, SoundAttack, Attack
  <2>3. QED
    BY <1>2, <2>1, <2>2 DEF Forward, CalledOff, Decided, Over, Judged, Airborne, Landed
<1>3. CASE block' = block /\ StepOf(store, store')
  <2> SUFFICES ASSUME there PROVE Forward
    BY DEF Forward, CalledOff, Decided, Over, Judged, Airborne, Landed
  <2> DEFINE x == store.lobbies[1]
             y == store'.lobbies[1]
             e == x.epochId
             a == store.attacks[e]
             b == store'.attacks[e]
  <2>1. /\ 1 \in Ids(store) /\ Sound(store) /\ Sound(store') /\ block \in Nat
    BY <1>1, ThereIsAnOperation DEF FairPlay, IInv
  <2>2. /\ x \in SoundLobby /\ e \in EpochIds /\ Linked(x, a) /\ FairLobby(block, x, a)
    BY <1>1, <2>1, LobbyOf DEF Fair
  <2>3. RoomMove(x, y, a, b) /\ AttackMoves(a, b) /\ 1 \in Ids(store')
    BY <1>3, <2>1, <2>2 DEF StepOf, MoveOf
  <2>4. y.epochId = e
    BY <2>3, MoveKeepsTerms DEF SameTerms
  <2>5. b.launchBlock = a.launchBlock /\ b.impactBlock = a.impactBlock
    BY <2>2, <2>3 DEF FairLobby, AttackMoves
  <2>6. /\ room = x /\ room' = y /\ attackOf(1) = a
        /\ attackOf(1)' = b
    BY <2>4 DEF room, lobbyOf, attackOf
  <2>7. there'
    <3>1. Len(store'.lobbies) \in Nat
      BY <2>1, StorageFields
    <3>2. QED
      BY <2>3, <3>1 DEF Ids, there, LobbyIds
  <2> HIDE DEF x, y, a, b, e
  <2>8. /\ x.status = "CANCELLED" => y.status = "CANCELLED"
        /\ x.status = "RESOLVED" => y.status = "RESOLVED"
        /\ x.ending # "NONE" => y.ending # "NONE"
        /\ x.resolvedAtBlock # 0 => y.resolvedAtBlock # 0
    BY <2>1, <2>2, <2>3, RoomGoesForward
  <2>9. QED
    BY <1>3, <2>5, <2>6, <2>7, <2>8
       DEF Forward, CalledOff, Decided, Over, Judged, Airborne, Landed
<1>4. QED
  BY <1>1, <1>2, <1>3, NextSteps

-----------------------------------------------------------------------------
(* The inductive invariant.  A read in flight or on screen was true of the *)
(* chain when it was served, and what it says that matters is never taken  *)
(* back; so it is stated as what has happened since.                       *)

ShownRoom(lobby) ==
    /\ there /\ lobby \in SoundLobby
    /\ lobby.status = "CANCELLED" => CalledOff
    /\ lobby.status = "RESOLVED" => Decided
    /\ lobby.ending # "NONE" => Over

ShownAttack(attack) ==
    /\ attack.status = "LAUNCHED" => Airborne
    /\ attack.status = "RESOLVED" => Landed

ReadsAreTrue(f) ==
    /\ \A h \in Hooks : f[h] # {} => there
    /\ \A read \in f["lobby"] : ShownRoom(read)
    /\ \A read \in f["attack"] : ShownAttack(read)
    /\ \A read \in f["reveal"] : read \in BOOLEAN /\ (read => Judged)

ScreenIsTrue(p) ==
    /\ p.open \in BOOLEAN /\ p.head \in Nat /\ p.head <= block
    /\ p.lobby = NoLobby \/ ShownRoom(p.lobby)
    /\ p.outcome.intercepted => Judged
    /\ ShownAttack(p.attack)
    /\ p.scored \in BOOLEAN /\ (p.scored => Judged)

(* What the keeper hook remembers: once its effect has run for the facts   *)
(* and the retry it has now, somebody is asking, or has stopped for good.  *)
SomebodyAsks(m) ==
    \/ "auto" \in m.job \/ m.timer \/ m.succeeded
    \/ m.attempts >= MAX_NUDGES \/ m.orphaned

Remembers(m) ==
    /\ m.attempts \in Nat /\ m.attempts <= MAX_NUDGES
    /\ m.retry \in Nat /\ m.ran \in Int /\ m.ran <= m.retry
    /\ m.ran = m.retry => SomebodyAsks(m)

IsPage(p) ==
    p \in [ open : {p.open}, head : {p.head}, lobby : {p.lobby}, outcome : {p.outcome},
            seat : {p.seat}, attack : {p.attack}, loaded : {p.loaded}, scored : {p.scored} ]

IsNudging(m) ==
    m \in [ attempts : {m.attempts}, job : {m.job}, mine : {m.mine},
            succeeded : {m.succeeded}, timer : {m.timer}, retry : {m.retry},
            ran : {m.ran}, orphaned : {m.orphaned} ]

IsClick(c) ==
    c \in [ pc : {c.pc}, kind : {c.kind}, forSeat : {c.forSeat}, forCreator : {c.forCreator},
            shown : {c.shown}, owed : {c.owed}, got : {c.got} ]

PInv ==
    /\ FairPlay /\ visit \in VisitType
    /\ IsPage(page) /\ ScreenIsTrue(page)
    /\ reads = [h \in Hooks |-> reads[h]] /\ ReadsAreTrue(reads)
    /\ IsNudging(nudging) /\ Remembers(nudging) /\ (nudging.mine => page.open)
    /\ IsClick(click) /\ (click.pc # "idle" => Over)

LEMMA InitPage == PageInit => PInv
<1> SUFFICES ASSUME PageInit PROVE PInv
  OBVIOUS
<1>1. FairPlay /\ visit \in VisitType
  BY InitFair, PageAssumption DEF PageInit, VisitType
<1>2. IsPage(page) /\ IsNudging(nudging) /\ IsClick(click)
  BY DEF PageInit, Blank, NoNudge, NoClick, IsPage, IsNudging, IsClick
<1>3. reads = [h \in Hooks |-> reads[h]] /\ ReadsAreTrue(reads)
  BY DEF PageInit, ReadsAreTrue, Hooks
<1>4. ScreenIsTrue(page)
  BY NumbersAssumption
     DEF PageInit, Init, Blank, ScreenIsTrue, ShownAttack, Unloaded, NoOutcome
<1>5. Remembers(nudging) /\ (nudging.mine => page.open) /\ click.pc = "idle"
  BY PageAssumption DEF PageInit, NoNudge, NoClick, Remembers, NotRun, Blank
<1>6. QED
  BY <1>1, <1>2, <1>3, <1>4, <1>5 DEF PInv

LEMMA RoomShownStands ==
    ASSUME Forward, NEW lobby, ShownRoom(lobby)
    PROVE  ShownRoom(lobby)'
BY DEF Forward, ShownRoom

LEMMA AttackShownStands ==
    ASSUME Forward, NEW attack, ShownAttack(attack)
    PROVE  ShownAttack(attack)'
BY DEF Forward, ShownAttack

LEMMA ScreenStands ==
    ASSUME Forward, block \in Nat, block' \in Nat, block <= block',
           NEW p, ScreenIsTrue(p)
    PROVE  ScreenIsTrue(p)'
<1>1. p.head <= block'
  BY DEF ScreenIsTrue
<1>2. p.lobby = NoLobby \/ ShownRoom(p.lobby)'
  BY RoomShownStands DEF ScreenIsTrue
<1>3. ShownAttack(p.attack)'
  BY AttackShownStands DEF ScreenIsTrue
<1>4. QED
  BY <1>1, <1>2, <1>3 DEF ScreenIsTrue, Forward

LEMMA ReadsStand ==
    ASSUME Forward, NEW f, ReadsAreTrue(f)
    PROVE  ReadsAreTrue(f)'
<1>1. \A h \in Hooks : f[h] # {} => there'
  BY DEF ReadsAreTrue, Forward
<1>2. \A read \in f["lobby"] : ShownRoom(read)'
  BY RoomShownStands DEF ReadsAreTrue
<1>3. \A read \in f["attack"] : ShownAttack(read)'
  BY AttackShownStands DEF ReadsAreTrue
<1>4. \A read \in f["reveal"] : read \in BOOLEAN /\ (read => Judged')
  BY DEF ReadsAreTrue, Forward
<1>5. QED
  BY <1>1, <1>2, <1>3, <1>4 DEF ReadsAreTrue

(* What every step brings from the chain.                                  *)
LEMMA ChainSide ==
    ASSUME PInv, [Next]_vars
    PROVE  /\ FairPlay' /\ Forward
           /\ block \in Nat /\ block' \in Nat /\ block <= block'
<1>1. FairPlay /\ FairPlay' /\ Forward /\ IInv /\ Fair(block, store)
  BY NextFair, ChainGoesForward DEF PInv, FairPlay
<1>2. block \in Nat /\ block' \in Nat
  BY <1>1 DEF FairPlay, IInv
<1>3. QED
  BY <1>1, <1>2, NextSteps

LEMMA StillIsTheContract ==
    ASSUME UNCHANGED <<block, store>>
    PROVE  [Next]_vars
BY DEF vars

-----------------------------------------------------------------------------
(* What is read is true.                                                   *)

LEMMA AttackStatusRead ==
    ASSUME NEW attack, NEW b
    PROVE  /\ toAttack(attack, b).status = "LAUNCHED" => b >= attack.launchBlock
           /\ toAttack(attack, b).status = "RESOLVED" =>
                 b >= attack.impactBlock \/ attack.status = "RESOLVED"
<1> DEFINE d == derivedStatus(attack, b)
<1>1. /\ d = "LAUNCHED" => b >= attack.launchBlock \/ attack.status \in {"NONE", "RESOLVED"}
      /\ d \in {"COMPLETED", "RESOLVED"} => b >= attack.impactBlock \/ attack.status = "RESOLVED"
      /\ attack.status \in {"NONE", "RESOLVED"} => d = attack.status
  BY DEF derivedStatus
<1> HIDE DEF d
<1>2. CASE d = "LAUNCHED"
  <2>1. toAttackStatus(d) = "LAUNCHED"
    BY <1>2, Zenon DEF toAttackStatus
  <2>2. QED
    BY <1>1, <1>2, <2>1 DEF toAttack, d
<1>3. CASE d \in {"COMPLETED", "RESOLVED"}
  <2>1. toAttackStatus(d) = "RESOLVED"
    BY <1>3, Zenon DEF toAttackStatus
  <2>2. QED
    BY <1>1, <1>3, <2>1 DEF toAttack, d
<1>4. CASE d # "LAUNCHED" /\ d \notin {"COMPLETED", "RESOLVED"}
  <2>1. toAttackStatus(d) = "PENDING"
    BY <1>4, Zenon DEF toAttackStatus
  <2>2. QED
    BY <2>1 DEF toAttack, d
<1>5. QED
  BY <1>2, <1>3, <1>4

LEMMA AnswersAreTrue ==
    ASSUME FairPlay, there
    PROVE  /\ ShownRoom(answer("lobby"))
           /\ ShownAttack(answer("attack"))
           /\ answer("reveal") \in BOOLEAN /\ (answer("reveal") => Judged)
<1> DEFINE attack == attackOf(1)
<1>1. /\ room \in SoundLobby /\ attack \in SoundAttack /\ FairAttack(block, attack)
  BY ThereIsAnOperation, LobbyOf
     DEF FairPlay, IInv, Fair, FairAttacks, room, lobbyOf, attackOf
<1>2. ShownRoom(answer("lobby"))
  BY <1>1 DEF answer, readLobby, ShownRoom, CalledOff, Decided, Over
<1>3. ShownAttack(answer("attack"))
  <2>1. answer("attack") = toAttack(attack, block)
    BY DEF answer, readAttack
  <2>2. QED
    BY <1>1, <2>1, AttackStatusRead DEF ShownAttack, Airborne, Landed, FairAttack
<1>4. answer("reveal") \in BOOLEAN /\ (answer("reveal") => Judged)
  BY <1>1 DEF answer, readReveal, SoundAttack, Attack, Judged
<1>5. QED
  BY <1>2, <1>3, <1>4

-----------------------------------------------------------------------------
(* What a step writes.                                                     *)

(* A step is safe when what it writes was true of the chain before it.     *)
LEMMA SafeStep ==
    ASSUME PInv, [Next]_vars, visit' \in VisitType,
           NEW p, page' = p, IsPage(p), ScreenIsTrue(p),
           NEW f, reads' = f, f = [h \in Hooks |-> f[h]], ReadsAreTrue(f),
           NEW m, nudging' = m, IsNudging(m), Remembers(m), m.mine => p.open,
           NEW c, click' = c, IsClick(c), c.pc # "idle" => Over
    PROVE  PInv'
<1>1. FairPlay' /\ Forward /\ block \in Nat /\ block' \in Nat /\ block <= block'
  BY ChainSide
<1>2. IsPage(page)' /\ ScreenIsTrue(page)'
  <2>1. ScreenIsTrue(p)'
    BY <1>1, ScreenStands
  <2>2. QED
    BY <2>1 DEF IsPage
<1>3. (reads = [h \in Hooks |-> reads[h]] /\ ReadsAreTrue(reads))'
  <2>1. ReadsAreTrue(f)'
    BY <1>1, ReadsStand
  <2>2. QED
    BY <2>1
<1>4. (IsNudging(nudging) /\ Remembers(nudging) /\ (nudging.mine => page.open))'
  BY DEF IsNudging, Remembers, SomebodyAsks
<1>5. (IsClick(click) /\ (click.pc # "idle" => Over))'
  BY <1>1 DEF IsClick, Forward
<1>6. QED
  BY <1>1, <1>2, <1>3, <1>4, <1>5 DEF PInv

LEMMA RendersRemembers ==
    ASSUME IsNudging(nudging), Remembers(nudging), NEW p, NEW m,
           m = [nudging EXCEPT !.ran = IF dueOn(p) THEN @ ELSE NotRun]
    PROVE  IsNudging(m) /\ Remembers(m) /\ m.mine = nudging.mine
<1> DEFINE ran == IF dueOn(p) THEN nudging.ran ELSE NotRun
<1>1. /\ nudging.ran \in Int /\ nudging.retry \in Nat /\ nudging.ran <= nudging.retry
      /\ NotRun = -1
  BY DEF Remembers, NotRun
<1>2. ran \in Int /\ ran <= nudging.retry /\ (ran = nudging.retry => ran = nudging.ran)
  BY <1>1
<1>3. m = [nudging EXCEPT !.ran = ran]
  OBVIOUS
<1> HIDE DEF ran
<1>4. /\ IsNudging(m) /\ m.ran = ran /\ m.mine = nudging.mine
      /\ m.attempts = nudging.attempts /\ m.job = nudging.job /\ m.timer = nudging.timer
      /\ m.succeeded = nudging.succeeded /\ m.retry = nudging.retry
      /\ m.orphaned = nudging.orphaned
  BY <1>3 DEF IsNudging
<1>5. QED
  BY <1>2, <1>4 DEF Remembers, SomebodyAsks

(* An answer that is true leaves a true screen.                            *)
LEMMA ShowsTheTruth ==
    ASSUME IsPage(page), ScreenIsTrue(page), there, NEW h \in Hooks, NEW read,
           h = "lobby" => ShownRoom(read),
           h = "attack" => ShownAttack(read),
           h = "reveal" => read \in BOOLEAN /\ (read => Judged)
    PROVE  /\ IsPage(shows(h, read)) /\ ScreenIsTrue(shows(h, read))
           /\ shows(h, read).open = page.open
<1>1. CASE h = "lobby"
  <2> DEFINE out == toOutcome(room)
             p == [page EXCEPT !.lobby = read, !.outcome = out]
  <2>1. shows(h, read) = p
    BY <1>1 DEF shows
  <2>2. out.intercepted => Judged
    BY DEF toOutcome, NoOutcome, Judged
  <2> HIDE DEF out
  <2>3. /\ IsPage(p) /\ p.open = page.open /\ p.head = page.head /\ p.lobby = read
        /\ p.outcome = out /\ p.attack = page.attack /\ p.scored = page.scored
    BY DEF IsPage
  <2> HIDE DEF p
  <2>4. ScreenIsTrue(p)
    BY <1>1, <2>2, <2>3 DEF ScreenIsTrue
  <2>5. QED
    BY <2>1, <2>3, <2>4
<1>2. CASE h = "seats"
  <2>1. shows(h, read) = [page EXCEPT !.seat = read]
    BY <1>2 DEF shows
  <2>2. QED
    BY <2>1 DEF IsPage, ScreenIsTrue
<1>3. CASE h = "attack"
  <2>1. shows(h, read) = IF loadedLobby THEN [page EXCEPT !.attack = read] ELSE page
    BY <1>3 DEF shows
  <2>2. QED
    BY <1>3, <2>1 DEF IsPage, ScreenIsTrue
<1>4. CASE h = "reveal"
  <2>1. shows(h, read) = IF loadedLobby THEN [page EXCEPT !.loaded = TRUE, !.scored = read]
                         ELSE page
    BY <1>4 DEF shows
  <2>2. QED
    BY <1>4, <2>1 DEF IsPage, ScreenIsTrue
<1>5. QED
  BY <1>1, <1>2, <1>3, <1>4 DEF Hooks

LEMMA FewerReads ==
    ASSUME reads = [h \in Hooks |-> reads[h]], ReadsAreTrue(reads),
           NEW h \in Hooks, NEW read, NEW f, f = [reads EXCEPT ![h] = @ \ {read}]
    PROVE  f = [k \in Hooks |-> f[k]] /\ ReadsAreTrue(f)
<1>1. DOMAIN f = Hooks /\ f = [k \in Hooks |-> f[k]] /\ \A k \in Hooks : f[k] \subseteq reads[k]
  OBVIOUS
<1>2. QED
  BY <1>1 DEF ReadsAreTrue, Hooks

LEMMA MoreReads ==
    ASSUME FairPlay, there, reads = [h \in Hooks |-> reads[h]], ReadsAreTrue(reads),
           NEW h \in Hooks, NEW f, f = [reads EXCEPT ![h] = @ \cup {answer(h)}]
    PROVE  f = [k \in Hooks |-> f[k]] /\ ReadsAreTrue(f)
<1>1. f = [k \in Hooks |-> f[k]]
  OBVIOUS
<1>2. \A k \in Hooks : \A read : read \in f[k] => read \in reads[k] \/ read = answer(k)
  OBVIOUS
<1>3. QED
  BY <1>1, <1>2, AnswersAreTrue DEF ReadsAreTrue, Hooks

(* The parts of the invariant that a step leaves alone.                    *)
LEMMA AsItWas ==
    ASSUME PInv
    PROVE  /\ visit \in VisitType
           /\ IsPage(page) /\ ScreenIsTrue(page)
           /\ reads = [h \in Hooks |-> reads[h]] /\ ReadsAreTrue(reads)
           /\ IsNudging(nudging) /\ Remembers(nudging) /\ (nudging.mine => page.open)
           /\ IsClick(click) /\ (click.pc # "idle" => Over)
           /\ FairPlay /\ IInv /\ block \in Nat
BY DEF PInv, FairPlay, IInv

-----------------------------------------------------------------------------
(* One lemma per group of operations.                                      *)

LEMMA ChainKeeps ==
    ASSUME PInv, Chain, UNCHANGED <<visit, page, reads, nudging, click>>
    PROVE  [Next]_vars /\ PInv'
<1>1. [Next]_vars
  BY AsItWas, ChainIsTheContract
<1>2. QED
  BY <1>1, AsItWas, SafeStep

(* A screen that changes, and nothing else but the reads.                  *)
LEMMA RenderKeeps ==
    ASSUME PInv, UNCHANGED <<block, store, click>>, visit' \in VisitType,
           NEW p, renders(p), IsPage(p), ScreenIsTrue(p), nudging.mine => p.open,
           NEW f, reads' = f, f = [h \in Hooks |-> f[h]], ReadsAreTrue(f)
    PROVE  PInv'
<1> DEFINE m == [nudging EXCEPT !.ran = IF dueOn(p) THEN @ ELSE NotRun]
<1>1. page' = p /\ nudging' = m
  BY DEF renders
<1>2. IsNudging(m) /\ Remembers(m) /\ m.mine = nudging.mine
  BY AsItWas, RendersRemembers
<1> HIDE DEF m
<1>3. [Next]_vars /\ click' = click
  BY StillIsTheContract
<1>4. QED
  BY <1>1, <1>2, <1>3, AsItWas, SafeStep

LEMMA HeadHeardKeeps ==
    ASSUME PInv, HeadHeard
    PROVE  [Next]_vars /\ PInv'
<1> DEFINE p == [page EXCEPT !.head = block]
<1>1. /\ renders(p) /\ UNCHANGED <<block, store, click>> /\ visit' = visit /\ reads' = reads
  BY DEF HeadHeard
<1>2. /\ IsPage(p) /\ p.head = block /\ p.open = page.open /\ p.lobby = page.lobby
      /\ p.outcome = page.outcome /\ p.attack = page.attack /\ p.scored = page.scored
  BY AsItWas DEF IsPage
<1> HIDE DEF p
<1>3. ScreenIsTrue(p)
  BY <1>2, AsItWas DEF ScreenIsTrue
<1>4. QED
  BY <1>1, <1>2, <1>3, AsItWas, RenderKeeps, StillIsTheContract

LEMMA AskKeeps ==
    ASSUME PInv, NEW h \in Hooks, Ask(h)
    PROVE  [Next]_vars /\ PInv'
<1> DEFINE f == [reads EXCEPT ![h] = @ \cup {answer(h)}]
<1>1. /\ there /\ reads' = f /\ UNCHANGED <<block, store>>
      /\ visit' = visit /\ page' = page /\ nudging' = nudging /\ click' = click
  BY DEF Ask
<1>2. f = [k \in Hooks |-> f[k]] /\ ReadsAreTrue(f)
  BY <1>1, AsItWas, MoreReads
<1> HIDE DEF f
<1>3. QED
  BY <1>1, <1>2, AsItWas, SafeStep, StillIsTheContract

LEMMA LandKeeps ==
    ASSUME PInv, NEW h \in Hooks, Land(h)
    PROVE  [Next]_vars /\ PInv'
<1>1. PICK read \in reads[h] :
          /\ reads' = [reads EXCEPT ![h] = @ \ {read}]
          /\ renders(shows(h, read))
          /\ UNCHANGED <<block, store, visit, click>>
  BY DEF Land
<1> DEFINE f == [reads EXCEPT ![h] = @ \ {read}]
           p == shows(h, read)
<1>2. f = [k \in Hooks |-> f[k]] /\ ReadsAreTrue(f)
  BY AsItWas, FewerReads
<1> HIDE DEF f
<1>3. /\ there
      /\ h = "lobby" => ShownRoom(read)
      /\ h = "attack" => ShownAttack(read)
      /\ h = "reveal" => read \in BOOLEAN /\ (read => Judged)
  BY AsItWas DEF ReadsAreTrue
<1>4. IsPage(p) /\ ScreenIsTrue(p) /\ p.open = page.open
  BY <1>3, AsItWas, ShowsTheTruth
<1>5. renders(p) /\ reads' = f
  BY <1>1 DEF f
<1> HIDE DEF p
<1>6. visit' \in VisitType /\ UNCHANGED <<block, store, click>> /\ (nudging.mine => p.open)
  BY <1>1, <1>4, AsItWas
<1>7. QED
  BY <1>2, <1>4, <1>5, <1>6, RenderKeeps, StillIsTheContract

LEMMA ReadFailsKeeps ==
    ASSUME PInv, NEW h \in Hooks, ReadFails(h)
    PROVE  [Next]_vars /\ PInv'
<1> DEFINE v == [visit EXCEPT !.losses = @ - 1]
           p == CASE h = "lobby"  -> [Blank EXCEPT !.head = page.head]
                  [] h = "reveal" -> [page EXCEPT !.loaded = loadedLobby \/ @]
                  [] OTHER -> page
<1>1. PICK read \in reads[h] : reads' = [reads EXCEPT ![h] = @ \ {read}]
  BY DEF ReadFails
<1> DEFINE f == [reads EXCEPT ![h] = @ \ {read}]
<1>2. f = [k \in Hooks |-> f[k]] /\ ReadsAreTrue(f)
  BY AsItWas, FewerReads
<1>3. /\ renders(p) /\ UNCHANGED <<block, store, click>> /\ visit' = v /\ reads' = f
      /\ visit.losses > 0
  BY <1>1 DEF ReadFails
<1>4. v \in VisitType
  BY <1>3, AsItWas DEF VisitType
<1>5. IsPage(p) /\ ScreenIsTrue(p) /\ (nudging.mine => p.open)
  <2>1. CASE h = "lobby"
    <3> DEFINE q == [Blank EXCEPT !.head = page.head]
    <3>1. p = q
      BY <2>1, Zenon
    <3>2. /\ IsPage(q) /\ q.open = TRUE /\ q.head = page.head /\ q.lobby = NoLobby
          /\ q.outcome = NoOutcome /\ q.attack = Unloaded /\ q.scored = FALSE
      BY DEF Blank, IsPage
    <3> HIDE DEF q
    <3>3. ScreenIsTrue(q)
      <4>1. ~q.outcome.intercepted /\ q.attack.status = "null"
        BY <3>2 DEF NoOutcome, Unloaded
      <4>2. ShownAttack(q.attack)
        BY <4>1 DEF ShownAttack
      <4>3. QED
        BY <3>2, <4>1, <4>2, AsItWas DEF ScreenIsTrue
    <3>4. QED
      BY <3>1, <3>2, <3>3
  <2>2. CASE h = "reveal"
    <3> DEFINE now == loadedLobby \/ page.loaded
               q == [page EXCEPT !.loaded = now]
    <3>1. p = q
      <4>1. p = [page EXCEPT !.loaded = loadedLobby \/ @]
        BY <2>2, Zenon
      <4>2. QED
        BY <4>1
    <3> HIDE DEF now
    <3>2. /\ IsPage(q) /\ q.open = page.open /\ q.head = page.head /\ q.lobby = page.lobby
          /\ q.outcome = page.outcome /\ q.attack = page.attack /\ q.scored = page.scored
      BY AsItWas DEF IsPage
    <3> HIDE DEF q
    <3>3. ScreenIsTrue(q)
      BY <3>2, AsItWas DEF ScreenIsTrue
    <3>4. QED
      BY <3>1, <3>2, <3>3, AsItWas
  <2>3. CASE h \notin {"lobby", "reveal"}
    <3>1. p = page
      BY <2>3, Zenon
    <3>2. QED
      BY <3>1, AsItWas
  <2>4. QED
    BY <2>1, <2>2, <2>3
<1> HIDE DEF p, f, v
<1>6. QED
  BY <1>2, <1>3, <1>4, <1>5, RenderKeeps, StillIsTheContract

(* A step of the keeper hook alone.                                        *)
LEMMA NudgingKeeps ==
    ASSUME PInv, UNCHANGED <<block, store, visit, page, reads, click>>,
           NEW m, nudging' = m, IsNudging(m), Remembers(m), m.mine => page.open
    PROVE  [Next]_vars /\ PInv'
BY AsItWas, SafeStep, StillIsTheContract

LEMMA AsksTheKeeperKeeps ==
    ASSUME PInv, AsksTheKeeper
    PROVE  [Next]_vars /\ PInv'
<1> DEFINE rests == [nudging EXCEPT !.ran = nudging.retry]
           job   == nudging.job \cup {"auto"}
           count == nudging.attempts + 1
           asks  == [nudging EXCEPT !.ran = nudging.retry, !.attempts = count,
                                    !.job = job, !.mine = TRUE]
<1>1. /\ page.open /\ UNCHANGED <<block, store, visit, page, reads, click>>
      /\ nudging' = IF "auto" \in nudging.job \/ nudging.succeeded
                       \/ nudging.attempts >= MAX_NUDGES
                    THEN rests ELSE asks
  BY DEF AsksTheKeeper
<1>2. /\ IsNudging(rests) /\ rests.ran = nudging.retry /\ rests.retry = nudging.retry
      /\ rests.attempts = nudging.attempts /\ rests.job = nudging.job
      /\ rests.mine = nudging.mine /\ rests.succeeded = nudging.succeeded
  BY AsItWas DEF IsNudging
<1> HIDE DEF job, count
<1>3. /\ IsNudging(asks) /\ asks.ran = nudging.retry /\ asks.retry = nudging.retry
      /\ asks.attempts = count /\ asks.job = job
  BY AsItWas DEF IsNudging
<1> HIDE DEF rests, asks
<1>4. /\ nudging.attempts \in Nat /\ nudging.attempts <= MAX_NUDGES
      /\ nudging.retry \in Nat /\ MAX_NUDGES \in Nat
  BY AsItWas, PageAssumption DEF Remembers
<1>5. CASE "auto" \in nudging.job \/ nudging.succeeded \/ nudging.attempts >= MAX_NUDGES
  <2>1. Remembers(rests)
    BY <1>2, <1>4, <1>5 DEF Remembers, SomebodyAsks
  <2>2. QED
    BY <1>1, <1>2, <1>5, <2>1, NudgingKeeps
<1>6. CASE ~("auto" \in nudging.job \/ nudging.succeeded \/ nudging.attempts >= MAX_NUDGES)
  <2>1. Remembers(asks)
    BY <1>3, <1>4, <1>6 DEF Remembers, SomebodyAsks, job, count
  <2>2. QED
    BY <1>1, <1>3, <1>6, <2>1, NudgingKeeps
<1>7. QED
  BY <1>5, <1>6

LEMMA RevealByHandKeeps ==
    ASSUME PInv, RevealByHand
    PROVE  [Next]_vars /\ PInv'
<1> DEFINE job == nudging.job \cup {"hand"}
           m   == [nudging EXCEPT !.job = job]
<1>1. UNCHANGED <<block, store, visit, page, reads, click>> /\ nudging' = m
  BY DEF RevealByHand
<1> HIDE DEF job
<1>2. /\ IsNudging(m) /\ m.attempts = nudging.attempts /\ m.job = job /\ m.mine = nudging.mine
      /\ m.succeeded = nudging.succeeded /\ m.timer = nudging.timer
      /\ m.retry = nudging.retry /\ m.ran = nudging.ran /\ m.orphaned = nudging.orphaned
  BY AsItWas DEF IsNudging
<1> HIDE DEF m
<1>3. Remembers(m)
  BY <1>2, AsItWas DEF Remembers, SomebodyAsks, job
<1>4. QED
  BY <1>1, <1>2, <1>3, AsItWas, NudgingKeeps

LEMMA RetryTimerFiresKeeps ==
    ASSUME PInv, RetryTimerFires
    PROVE  [Next]_vars /\ PInv'
<1> DEFINE retry == nudging.retry + 1
           none == FALSE
           m == [nudging EXCEPT !.timer = none, !.retry = retry]
<1>1. UNCHANGED <<block, store, visit, page, reads, click>> /\ nudging' = m
  BY DEF RetryTimerFires
<1> HIDE DEF retry, none
<1>2. /\ IsNudging(m) /\ m.attempts = nudging.attempts /\ m.mine = nudging.mine
      /\ m.retry = retry /\ m.ran = nudging.ran
  BY AsItWas DEF IsNudging
<1> HIDE DEF m
<1>3. /\ retry \in Nat /\ nudging.ran < retry /\ nudging.ran \in Int
      /\ nudging.attempts \in Nat /\ nudging.attempts <= MAX_NUDGES
  BY AsItWas DEF Remembers, retry
<1>4. Remembers(m)
  BY <1>2, <1>3 DEF Remembers
<1>5. QED
  BY <1>1, <1>2, <1>4, AsItWas, NudgingKeeps

LEMMA KeeperAnswersKeeps ==
    ASSUME PInv, NEW ok \in BOOLEAN, KeeperAnswers(ok)
    PROVE  [Next]_vars /\ PInv'
<1> DEFINE auto  == "auto" \in nudging.job
           after == IF ok /\ nudging.mine
                    THEN shows("reveal", answer("reveal")) ELSE page
           none  == {}
           no    == FALSE
           done  == nudging.succeeded \/ (auto /\ ok)
           timer == nudging.timer \/ (auto /\ ~ok /\ again(nudging.mine, nudging.attempts))
           lone  == nudging.orphaned \/ (auto /\ ~ok /\ ~nudging.mine)
           ran   == IF dueOn(after) THEN nudging.ran ELSE NotRun
           m == [nudging EXCEPT !.job = none, !.mine = no, !.succeeded = done,
                                !.timer = timer, !.orphaned = lone, !.ran = ran]
<1>1. page' = after /\ UNCHANGED <<block, store, visit, reads, click>>
  BY DEF KeeperAnswers
<1>2. nudging' = m
  BY DEF KeeperAnswers
<1>3. IsPage(after) /\ ScreenIsTrue(after)
  <2>1. CASE ok /\ nudging.mine /\ loadedLobby
    <3>1. there
      BY <2>1, AsItWas DEF loadedLobby, ScreenIsTrue, ShownRoom
    <3>2. answer("reveal") \in BOOLEAN /\ (answer("reveal") => Judged)
      BY <3>1, AsItWas, AnswersAreTrue
    <3>3. QED
      BY <2>1, <3>1, <3>2, AsItWas, ShowsTheTruth DEF Hooks
  <2>2. CASE ~loadedLobby
    <3>1. shows("reveal", answer("reveal")) = page
      <4>1. shows("reveal", answer("reveal")) =
               IF loadedLobby
               THEN [page EXCEPT !.loaded = TRUE, !.scored = answer("reveal")] ELSE page
        BY DEF shows
      <4>2. QED
        BY <2>2, <4>1
    <3>2. QED
      BY <3>1, AsItWas
  <2>3. CASE ~(ok /\ nudging.mine)
    BY <2>3, AsItWas
  <2>4. QED
    BY <2>1, <2>2, <2>3
<1> HIDE DEF after
<1>4. /\ nudging.ran \in Int /\ nudging.retry \in Nat /\ nudging.ran <= nudging.retry
      /\ nudging.attempts \in Nat /\ nudging.attempts <= MAX_NUDGES /\ MAX_NUDGES \in Nat
      /\ nudging.ran = nudging.retry => SomebodyAsks(nudging)
  BY AsItWas, PageAssumption DEF Remembers
<1>5. ran \in Int /\ ran <= nudging.retry /\ (ran = nudging.retry => ran = nudging.ran)
  BY <1>4 DEF NotRun
<1>6. SomebodyAsks(nudging) =>
         timer \/ done \/ nudging.attempts >= MAX_NUDGES \/ lone
  BY <1>4 DEF SomebodyAsks, again
<1> HIDE DEF none, no, done, timer, lone, ran
<1>7. /\ IsNudging(m) /\ m.attempts = nudging.attempts /\ m.mine = no
      /\ m.retry = nudging.retry /\ m.ran = ran /\ m.timer = timer /\ m.succeeded = done
      /\ m.orphaned = lone
  BY AsItWas DEF IsNudging
<1> HIDE DEF m
<1>8. Remembers(m)
  BY <1>4, <1>5, <1>6, <1>7 DEF Remembers, SomebodyAsks
<1>9. m.mine => after.open
  BY <1>7 DEF no
<1>10. visit' \in VisitType /\ reads' = reads /\ click' = click /\ [Next]_vars
  BY <1>1, AsItWas, StillIsTheContract
<1>11. QED
  BY <1>1, <1>2, <1>3, <1>7, <1>8, <1>9, <1>10, AsItWas, SafeStep

LEMMA LeavePageKeeps ==
    ASSUME PInv, LeavePage
    PROVE  [Next]_vars /\ PInv'
<1> DEFINE no   == FALSE
           zero == 0
           head == page.head
           left == NotRun
           p == [Blank EXCEPT !.open = no, !.head = head]
           f == [h \in Hooks |-> {}]
           m == [nudging EXCEPT !.mine = no, !.timer = no, !.retry = zero, !.ran = left]
           v == [visit EXCEPT !.leaves = @ - 1]
<1>1. /\ page' = p /\ reads' = f /\ nudging' = m /\ visit' = v
      /\ visit.leaves > 0 /\ click' = click /\ [Next]_vars
  BY StillIsTheContract DEF LeavePage
<1>2. v \in VisitType
  BY <1>1, AsItWas DEF VisitType
<1>3. f = [h \in Hooks |-> f[h]] /\ ReadsAreTrue(f)
  BY DEF ReadsAreTrue, Hooks
<1> HIDE DEF no, zero, head, left
<1>4. /\ IsPage(p) /\ p.open = no /\ p.head = head /\ p.lobby = NoLobby
      /\ p.outcome = NoOutcome /\ p.attack = Unloaded /\ p.scored = FALSE
  BY DEF Blank, IsPage
<1>5. /\ IsNudging(m) /\ m.attempts = nudging.attempts /\ m.mine = no
      /\ m.retry = zero /\ m.ran = left
  BY AsItWas DEF IsNudging
<1> HIDE DEF p, m, v, f
<1>6. ScreenIsTrue(p)
  <2>1. ~p.outcome.intercepted /\ p.attack.status = "null"
    BY <1>4 DEF NoOutcome, Unloaded
  <2>2. ShownAttack(p.attack)
    BY <2>1 DEF ShownAttack
  <2>3. QED
    BY <1>4, <2>1, <2>2, AsItWas DEF ScreenIsTrue, no, head
<1>7. Remembers(m)
  BY <1>5, AsItWas DEF Remembers, zero, left, NotRun
<1>8. m.mine => p.open
  BY <1>5 DEF no
<1>9. QED
  BY <1>1, <1>2, <1>3, <1>4, <1>5, <1>6, <1>7, <1>8, AsItWas, SafeStep

LEMMA OpenPageKeeps ==
    ASSUME PInv, OpenPage
    PROVE  [Next]_vars /\ PInv'
<1> DEFINE yes == TRUE
           p == [page EXCEPT !.open = yes]
<1>1. /\ page' = p /\ reads' = reads /\ nudging' = nudging /\ visit' = visit
      /\ click' = click /\ [Next]_vars
  BY StillIsTheContract DEF OpenPage
<1> HIDE DEF yes
<1>2. /\ IsPage(p) /\ p.open = yes /\ p.head = page.head /\ p.lobby = page.lobby
      /\ p.outcome = page.outcome /\ p.attack = page.attack /\ p.scored = page.scored
  BY AsItWas DEF IsPage
<1> HIDE DEF p
<1>3. ScreenIsTrue(p)
  BY <1>2, AsItWas DEF ScreenIsTrue, yes
<1>4. nudging.mine => p.open
  BY <1>2 DEF yes
<1>5. visit' \in VisitType
  BY <1>1, AsItWas
<1>6. QED
  BY <1>1, <1>2, <1>3, <1>4, <1>5, AsItWas, SafeStep

-----------------------------------------------------------------------------
(* Collecting.                                                             *)

LEMMA JudgedIsOver ==
    ASSUME FairPlay, Judged
    PROVE  Over
<1>1. /\ room \in SoundLobby /\ FairLobby(block, room, attackOf(1))
  BY ThereIsAnOperation, LobbyOf DEF FairPlay, IInv, Fair, Judged, room, lobbyOf, attackOf
<1>2. room.status \in {"RESOLVED", "CANCELLED"}
  BY <1>1 DEF FairLobby, Judged
<1>3. QED
  BY <1>1, <1>2, LobbyFields DEF OneStory, Over, Judged

(* A button is lit only by an operation that was over when it was read.    *)
LEMMA OfferedWhenOver ==
    ASSUME PInv, loadedLobby, NEW kind, offered(kind)
    PROVE  Over
<1> DEFINE lobby == page.lobby
           out   == page.outcome
           seat  == page.seat
<1>1. /\ ShownRoom(lobby) /\ (out.intercepted => Judged) /\ FairPlay
  BY AsItWas DEF ScreenIsTrue, loadedLobby
<1>2. \/ refundOffered(lobby, out, seat, viewer)
      \/ payoutOffered(lobby, out, seat, viewer)
  BY DEF offered
<1> HIDE DEF lobby, out, seat
<1>3. "NONE" \notin RefundEndings
  BY DEF RefundEndings
<1>4. CASE refundOffered(lobby, out, seat, viewer)
  <2>1. lobby.ending \in RefundEndings
    BY <1>4 DEF refundOffered, participantShare, creatorShare
  <2>2. QED
    BY <1>1, <1>3, <2>1 DEF ShownRoom
<1>5. CASE prizeDue(out, seat) > 0
  <2>1. out.intercepted
    BY <1>5 DEF prizeDue
  <2>2. QED
    BY <1>1, <2>1, JudgedIsOver
<1>6. CASE feeDue(lobby, out, viewer) > 0
  <2>1. lobby.ending = "NONE" => creatorSettlementOf(lobby, out) = 0
    <3>1. lobby.ending = "NONE" =>
             lobby.ending # "COMPLETED" /\ lobby.ending \notin RefundEndings
      BY <1>3
    <3>2. QED
      BY <3>1, Zenon DEF creatorSettlementOf
  <2>2. feeDue(lobby, out, viewer) # 0
    BY <1>6
  <2>3. lobby.ending # "NONE"
    BY <2>1, <2>2 DEF feeDue
  <2>4. QED
    BY <1>1, <2>3 DEF ShownRoom
<1>7. QED
  BY <1>2, <1>4, <1>5, <1>6 DEF payoutOffered

(* A step of the claim, with nothing else on the page.                     *)
LEMMA ClickKeeps ==
    ASSUME PInv, [Next]_vars, visit' \in VisitType, UNCHANGED <<page, reads, nudging>>,
           NEW c, click' = c, IsClick(c), Over
    PROVE  PInv'
<1>1. page' = page /\ reads' = reads /\ nudging' = nudging
  OBVIOUS
<1>2. QED
  BY <1>1, AsItWas, SafeStep

LEMMA PressKeeps ==
    ASSUME PInv, NEW kind, Press(kind)
    PROVE  [Next]_vars /\ PInv'
<1> DEFINE forSeat    == needsSeat(kind, page.seat)
           forCreator == needsCreator(page.lobby)
           shown == toCollect(page.lobby, page.outcome, page.seat, viewer)
           first == firstStep(kind, forSeat)
           owes  == owedNow
           c == [ pc |-> first, kind |-> kind, forSeat |-> forSeat, forCreator |-> forCreator,
                  owed |-> owes, got |-> 0, shown |-> shown ]
           v == [visit EXCEPT !.presses = @ - 1]
<1>1. /\ click' = c /\ visit' = v /\ visit.presses > 0 /\ loadedLobby /\ offered(kind)
      /\ UNCHANGED <<page, reads, nudging>> /\ [Next]_vars
  BY StillIsTheContract DEF Press
<1>2. Over
  BY <1>1, OfferedWhenOver
<1>3. v \in VisitType
  BY <1>1, AsItWas DEF VisitType
<1> HIDE DEF forSeat, forCreator, shown, first, owes
<1>4. IsClick(c)
  BY DEF IsClick
<1> HIDE DEF c, v
<1>5. QED
  BY <1>1, <1>2, <1>3, <1>4, ClickKeeps

(* A claim in progress is about an operation that is over.                 *)
LEMMA InProgress ==
    ASSUME PInv, click.pc # "idle"
    PROVE  Over /\ there
BY AsItWas DEF Over

LEMMA Goes ==
    ASSUME IsClick(click), NEW pc, NEW c, c = [click EXCEPT !.pc = pc]
    PROVE  IsClick(c)
BY DEF IsClick

LEMMA SimulatesKeeps ==
    ASSUME PInv, Simulates
    PROVE  [Next]_vars /\ PInv'
<1>1. /\ \E pc : click' = [click EXCEPT !.pc = pc]
      /\ click.pc \in {"claim", "settle"}
      /\ visit' = visit /\ UNCHANGED <<page, reads, nudging>> /\ UNCHANGED <<block, store>>
  BY DEF Simulates, goes
<1>2. PICK pc : click' = [click EXCEPT !.pc = pc]
  BY <1>1
<1>3. IsClick([click EXCEPT !.pc = pc])
  BY AsItWas, Goes
<1>4. Over
  BY <1>1, InProgress
<1>5. QED
  BY <1>1, <1>2, <1>3, <1>4, AsItWas, ClickKeeps, StillIsTheContract

LEMMA LooksAgainKeeps ==
    ASSUME PInv, LooksAgain
    PROVE  [Next]_vars /\ PInv'
<1>1. /\ \E pc : click' = [click EXCEPT !.pc = pc]
      /\ click.pc = "look"
      /\ visit' = visit /\ UNCHANGED <<page, reads, nudging>> /\ UNCHANGED <<block, store>>
  BY DEF LooksAgain, goes
<1>2. PICK pc : click' = [click EXCEPT !.pc = pc]
  BY <1>1
<1>3. IsClick([click EXCEPT !.pc = pc])
  BY AsItWas, Goes
<1>4. Over
  BY <1>1, InProgress
<1>5. QED
  BY <1>1, <1>2, <1>3, <1>4, AsItWas, ClickKeeps, StillIsTheContract

LEMMA MinedIsSafe ==
    ASSUME PInv, NEW pc, claimMined(pc) \/ settleMined(pc),
           visit' \in VisitType, UNCHANGED <<page, reads, nudging>>
    PROVE  [Next]_vars /\ PInv'
<1> DEFINE got == click.got + store.balance - store'.balance
           c == [click EXCEPT !.pc = pc, !.got = got]
<1>1. click' = c /\ click.pc \in {"claimSent", "settleSent"}
  BY DEF claimMined, settleMined, receives
<1>2. Over /\ there
  BY <1>1, InProgress
<1>3. [Next]_vars
  BY <1>2, AsItWas, ClaimIsTheContract
<1> HIDE DEF got
<1>4. IsClick(c)
  BY AsItWas DEF IsClick
<1> HIDE DEF c
<1>5. QED
  BY <1>1, <1>2, <1>3, <1>4, ClickKeeps

LEMMA MinedKeeps ==
    ASSUME PInv, Mined
    PROVE  [Next]_vars /\ PInv'
<1>1. \E pc : claimMined(pc) \/ settleMined(pc)
  BY DEF Mined
<1>2. visit' \in VisitType /\ UNCHANGED <<page, reads, nudging>>
  BY AsItWas DEF Mined
<1>3. QED
  BY <1>1, <1>2, MinedIsSafe

LEMMA AnswerLostKeeps ==
    ASSUME PInv, AnswerLost
    PROVE  [Next]_vars /\ PInv'
<1> DEFINE v == [visit EXCEPT !.losses = @ - 1]
<1>1. visit' = v /\ visit.losses > 0 /\ UNCHANGED <<page, reads, nudging>>
  BY DEF AnswerLost
<1>2. v \in VisitType
  BY <1>1, AsItWas DEF VisitType
<1> HIDE DEF v
<1>3. CASE /\ click.pc \in {"claim", "look", "settle"} /\ goes("lost")
           /\ UNCHANGED <<block, store>>
  <2>1. click' = [click EXCEPT !.pc = "lost"] /\ [Next]_vars
    BY <1>3, StillIsTheContract DEF goes
  <2>2. IsClick([click EXCEPT !.pc = "lost"])
    BY AsItWas, Goes
  <2>3. Over
    BY <1>3, InProgress
  <2>4. QED
    BY <1>1, <1>2, <2>1, <2>2, <2>3, ClickKeeps
<1>4. CASE claimMined("lost") \/ settleMined("lost")
  BY <1>1, <1>2, <1>4, MinedIsSafe
<1>5. QED
  BY <1>3, <1>4 DEF AnswerLost

-----------------------------------------------------------------------------

LEMMA NextPage ==
    ASSUME PInv, [PageNext]_pageVars
    PROVE  [Next]_vars /\ PInv'
<1>1. CASE UNCHANGED pageVars
  <2>1. /\ [Next]_vars /\ visit' \in VisitType /\ page' = page /\ reads' = reads
        /\ nudging' = nudging /\ click' = click
    BY <1>1, AsItWas, StillIsTheContract DEF pageVars
  <2>2. QED
    BY <2>1, AsItWas, SafeStep
<1>2. CASE Chain /\ UNCHANGED <<visit, page, reads, nudging, click>>
  BY <1>2, ChainKeeps
<1>3. CASE HeadHeard
  BY <1>3, HeadHeardKeeps
<1>4. CASE \E h \in Hooks : Ask(h) \/ Land(h) \/ ReadFails(h)
  BY <1>4, AskKeeps, LandKeeps, ReadFailsKeeps
<1>5. CASE AsksTheKeeper \/ RevealByHand \/ RetryTimerFires
  BY <1>5, AsksTheKeeperKeeps, RevealByHandKeeps, RetryTimerFiresKeeps
<1>6. CASE \E ok \in BOOLEAN : KeeperAnswers(ok)
  BY <1>6, KeeperAnswersKeeps
<1>7. CASE LeavePage \/ OpenPage
  BY <1>7, LeavePageKeeps, OpenPageKeeps
<1>8. CASE \E kind \in {"refund", "reward"} : Press(kind)
  BY <1>8, PressKeeps
<1>9. CASE Simulates \/ LooksAgain \/ Mined \/ AnswerLost
  BY <1>9, SimulatesKeeps, LooksAgainKeeps, MinedKeeps, AnswerLostKeeps
<1>10. QED
  BY <1>1, <1>2, <1>3, <1>4, <1>5, <1>6, <1>7, <1>8, <1>9 DEF PageNext

(* The invariant holds throughout a visit.                                 *)
THEOREM AVisitIsSound == PageSpec => []PInv
<1>1. PageInit => PInv
  BY InitPage
<1>2. PInv /\ [PageNext]_pageVars => PInv'
  BY NextPage
<1>3. QED
  BY <1>1, <1>2, PTL DEF PageSpec

(* A tab is one more user of the contract.  Whatever it reads, shows, asks *)
(* of the keeper and claims, in whatever order the answers come, the       *)
(* contract sees a behaviour of its own specification: everything proved   *)
(* of the contract holds with such a page in front of it                   *)
(* (pages/LobbyPage.tsx, hooks/useSettlement.ts).                          *)
THEOREM TheTabIsOneMoreUser == PageSpec => Spec
<1>1. PageInit => Init
  BY DEF PageInit
<1>2. PInv /\ [PageNext]_pageVars => [Next]_vars
  BY NextPage
<1>3. QED
  BY <1>1, <1>2, AVisitIsSound, PTL DEF PageSpec, Spec

-----------------------------------------------------------------------------
(* What is on screen has happened.                                         *)

LEMMA PhaseFromAttack ==
    ASSUME NEW attack, NEW b
    PROVE  LET d == derivePhaseFromAttack(attack, b) IN
           /\ d \in {"WAITING_FOR_ATTACK", "ATTACK_INCOMING", "ATTACK_ACTIVE", "RESULT"}
           /\ d = "RESULT" => attack.status = "RESOLVED"
           /\ d = "ATTACK_ACTIVE" => attack.status = "LAUNCHED"
<1> DEFINE d == derivePhaseFromAttack(attack, b)
           later == IF attack.launchBlock - b <= IncomingBlocks
                    THEN "ATTACK_INCOMING" ELSE "WAITING_FOR_ATTACK"
<1>1. attack = Unloaded => attack.status = "null"
  BY DEF Unloaded
<1>2. CASE attack = Unloaded
  <2>1. attack.status # "RESOLVED" /\ attack.status # "LAUNCHED"
    BY <1>1, <1>2
  <2>2. d = "WAITING_FOR_ATTACK"
    BY <1>2, <2>1, Zenon DEF derivePhaseFromAttack
  <2>3. QED
    BY <2>2
<1>3. CASE attack.status = "RESOLVED"
  <2>1. attack # Unloaded /\ attack.status # "LAUNCHED"
    BY <1>1, <1>3
  <2>2. d = "RESULT"
    BY <1>3, <2>1, Zenon DEF derivePhaseFromAttack
  <2>3. QED
    BY <1>3, <2>2
<1>4. CASE attack.status = "LAUNCHED"
  <2>1. attack # Unloaded /\ attack.status # "RESOLVED"
    BY <1>1, <1>4
  <2>2. d = "ATTACK_ACTIVE"
    BY <1>4, <2>1, Zenon DEF derivePhaseFromAttack
  <2>3. QED
    BY <1>4, <2>2
<1>5. CASE attack # Unloaded /\ attack.status # "RESOLVED" /\ attack.status # "LAUNCHED"
  <2>1. d = later
    BY <1>5, Zenon DEF derivePhaseFromAttack
  <2>2. QED
    BY <2>1
<1>6. QED
  BY <1>2, <1>3, <1>4, <1>5

LEMMA PhaseOnScreen ==
    ASSUME NEW lobby, NEW attack, NEW b
    PROVE  LET d == deriveLobbyPhase(lobby, attack, b) IN
           /\ d \in Phases
           /\ d = "CANCELLED" => lobby.status = "CANCELLED"
           /\ d = "RESULT" => lobby.status = "RESOLVED" \/ attack.status = "RESOLVED"
           /\ d = "ATTACK_ACTIVE" => attack.status = "LAUNCHED"
<1> DEFINE d == deriveLobbyPhase(lobby, attack, b)
           closed == applicationsClosed(lobby, b)
<1>1. CASE lobby.status = "CANCELLED"
  <2>1. lobby.status # "RESOLVED" /\ lobby.status # "OPEN"
    BY <1>1
  <2>2. d = "CANCELLED"
    BY <1>1, <2>1, Zenon DEF deriveLobbyPhase
  <2>3. QED
    BY <1>1, <2>2 DEF Phases
<1>2. CASE lobby.status = "RESOLVED"
  <2>1. lobby.status # "CANCELLED" /\ lobby.status # "OPEN"
    BY <1>2
  <2>2. d = "RESULT"
    BY <1>2, <2>1, Zenon DEF deriveLobbyPhase
  <2>3. QED
    BY <1>2, <2>2 DEF Phases
<1>3. CASE lobby.status = "OPEN" /\ ~closed
  <2>1. lobby.status # "CANCELLED" /\ lobby.status # "RESOLVED"
    BY <1>3
  <2>2. d = "OPEN"
    BY <1>3, <2>1, Zenon DEF deriveLobbyPhase
  <2>3. QED
    BY <2>2 DEF Phases
<1>4. CASE lobby.status = "OPEN" /\ closed /\ underFilled(lobby)
  <2>1. lobby.status # "CANCELLED" /\ lobby.status # "RESOLVED"
    BY <1>4
  <2>2. d = "UNDERSUBSCRIBED"
    BY <1>4, <2>1, Zenon DEF deriveLobbyPhase
  <2>3. QED
    BY <2>2 DEF Phases
<1>5. CASE /\ lobby.status # "CANCELLED" /\ lobby.status # "RESOLVED"
           /\ ~(lobby.status = "OPEN" /\ ~closed)
           /\ ~(lobby.status = "OPEN" /\ closed /\ underFilled(lobby))
  <2>1. d = derivePhaseFromAttack(attack, b)
    BY <1>5, Zenon DEF deriveLobbyPhase
  <2>2. QED
    BY <2>1, PhaseFromAttack DEF Phases
<1>6. QED
  BY <1>1, <1>2, <1>3, <1>4, <1>5

(* What has happened to an operation that is over, or decided.             *)
LEMMA WhatHasHappened ==
    ASSUME FairPlay
    PROVE  /\ CalledOff => room.ending \in RefundEndings
           /\ Decided => Landed
<1> SUFFICES ASSUME there
             PROVE  /\ CalledOff => room.ending \in RefundEndings
                    /\ Decided => Landed
  BY DEF CalledOff, Decided
<1>1. /\ room \in SoundLobby /\ attackOf(1) \in SoundAttack
      /\ FairAttack(block, attackOf(1)) /\ Linked(room, attackOf(1))
  BY ThereIsAnOperation, LobbyOf
     DEF FairPlay, IInv, Fair, FairAttacks, room, lobbyOf, attackOf
<1>2. /\ room.ending \in Endings
      /\ room.ending = "NONE" <=> room.status \in {"OPEN", "ACTIVE"}
      /\ room.ending = "COMPLETED" <=> room.status = "RESOLVED"
  BY <1>1, LobbyFields DEF OneStory
<1>3. CalledOff => room.ending \in RefundEndings
  BY <1>2 DEF CalledOff, RefundEndings, Endings
<1>4. Decided => Landed
  BY <1>1, <1>2 DEF Decided, Landed, Linked, SoundAttack, FairAttack
<1>5. QED
  BY <1>3, <1>4

LEMMA TheScreenIsTyped ==
    ASSUME PInv
    PROVE  PageTypeOK
<1> DEFINE lobby  == page.lobby
           attack == page.attack
<1>1. /\ page.head <= block /\ (lobby = NoLobby \/ ShownRoom(lobby))
      /\ ShownAttack(attack) /\ (page.scored => Judged) /\ FairPlay
  BY AsItWas DEF ScreenIsTrue
<1>2. loadedLobby => there
  BY <1>1 DEF loadedLobby, ShownRoom
<1>3. NoLobby.status = "null"
  BY DEF NoLobby
<1>4. /\ lobby.status = "CANCELLED" => CalledOff
      /\ lobby.status = "RESOLVED" => Decided
  BY <1>1, <1>3 DEF ShownRoom
<1>5. /\ phaseShown \in Phases
      /\ phaseShown = "CANCELLED" => lobby.status = "CANCELLED"
      /\ phaseShown = "RESULT" => lobby.status = "RESOLVED" \/ attack.status = "RESOLVED"
      /\ phaseShown = "ATTACK_ACTIVE" => attack.status = "LAUNCHED"
  BY PhaseOnScreen DEF phaseShown
<1> HIDE DEF lobby, attack
<1>6. phaseShown = "CANCELLED" => room.ending \in RefundEndings
  BY <1>1, <1>4, <1>5, WhatHasHappened
<1>7. phaseShown = "RESULT" => block >= attackOf(1).impactBlock
  <2>1. phaseShown = "RESULT" => Landed
    BY <1>1, <1>4, <1>5, WhatHasHappened DEF ShownAttack
  <2>2. QED
    BY <2>1 DEF Landed
<1>8. phaseShown = "ATTACK_ACTIVE" => block >= attackOf(1).launchBlock
  BY <1>1, <1>5 DEF ShownAttack, Airborne
<1>9. page.scored => room.resolvedAtBlock # 0
  BY <1>1 DEF Judged
<1>10. click.pc # "idle" => room.ending # "NONE"
  BY AsItWas DEF Over
<1>11. nudging.attempts <= MAX_NUDGES /\ (nudging.mine => page.open)
  BY AsItWas DEF Remembers
<1>12. QED
  BY <1>1, <1>2, <1>5, <1>6, <1>7, <1>8, <1>9, <1>10, <1>11 DEF PageTypeOK

(* An ending, a launch or a result on screen has happened, whichever       *)
(* answers overtook one another (useLobby.ts, useOperation.ts,             *)
(* useReveal.ts), and the request budget is kept (useProtocolKeeper.ts).   *)
THEOREM WhatIsShownHasHappened == PageSpec => []PageTypeOK
BY AVisitIsSound, TheScreenIsTyped, PTL

(* While a finished round is on screen without its result, the page asks,  *)
(* will ask again or has a reason not to, for every budget and every order *)
(* of answers, timers, leaving and coming back (useProtocolKeeper.ts:270). *)
THEOREM ThePageAsksUntilAnswered == PageSpec => []AsksUntilAnswered
<1>1. PInv => AsksUntilAnswered
  BY AsItWas DEF AsksUntilAnswered, atRest, askedAll, Remembers, SomebodyAsks
<1>2. QED
  BY <1>1, AVisitIsSound, PTL

=============================================================================
