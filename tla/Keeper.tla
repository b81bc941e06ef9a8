------------------------------- MODULE Keeper -------------------------------
(***************************************************************************)
(* The keeper (api/keeper/keeper.service.ts over api/chain/chain.service): *)
(* a process that reads the contract, decides, and sends the transitions   *)
(* nobody owns.  A sweep walks every operation and sleeps to the next      *)
(* deadline; a nudge from a page runs one operation beside it.  Every read *)
(* and every send is an await, so the contract moves under both.           *)
(***************************************************************************)
EXTENDS AegylaxGame

CONSTANTS
    Batch,          \* defenses one proveDefenses carries (32)
    SweepBlocks,    \* sweepMs, the longest sleep, in blocks
    Openers,        \* bound: the players who open operations of their own
    Defending,      \* bound: the players who send a defense
    DefenseBlocks,  \* bound: the blocks they send it in
    Hitting,        \* bound: the players whose defenses hit
    Starts,         \* the draw cadences explored, each with its bound on incidents:
                    \* nudges, lost reads and sends, further operations of players,
                    \* transactions of browsers
    Browsers        \* the calls a page may send beside the keeper

ASSUME KeeperAssumption ==
    /\ Batch \in 1 .. MaxBatch /\ SweepBlocks \in Nat \ {0}
    /\ Openers \subseteq Players /\ Defending \subseteq Players
    /\ Starts \subseteq [interval : Intervals, incidents : Nat]

VARIABLES
    jobs,           \* the sweep in flight, and the nudged operation
    acted,          \* whether a send went through since a job called revealAndScore
    timer,          \* the block the next sweep is set for
    wakes,          \* per operation, when the last sweep wants it again
    budget,         \* incidents left
    answers         \* whether the RPC has answered everything so far

keeperVars == <<block, store, jobs, acted, timer, wakes, budget, answers>>

DUE_NOW == 0
NEVER == -1

Jobs == {"sweep", "nudge"}

Call(fn, l, proven) == [fn |-> fn, lobby |-> l, proven |-> proven]

(* pc is what the job awaits; head the block it read when it began; last   *)
(* the list of operations it read; sends the calls it has decided on.      *)
Idle ==
    [ pc |-> "idle", lobby |-> 0, head |-> 0, last |-> 0, sends |-> <<>>,
      published |-> FALSE, due |-> FALSE ]

KeeperInit ==
    /\ Init
    /\ \E s \in Starts : store.interval = s.interval /\ budget = s.incidents
    /\ jobs = [j \in Jobs |-> Idle]
    /\ acted = [j \in Jobs |-> FALSE]
    /\ timer = Genesis
    /\ wakes = <<>>
    /\ answers = TRUE

-----------------------------------------------------------------------------
(* What a call does to the contract.  Which defenses hit is of no account  *)
(* to the keeper.                                                          *)
does(call) ==
    LET l    == call.lobby
        hits == call.proven \cap Hitting
    IN
    \/ call.fn = "startOperation"    /\ startOperation(l)
    \/ call.fn = "cancelLobby"       /\ cancelLobby(l)
    \/ call.fn = "unlockRound"       /\ unlockRound(l)
    \/ call.fn = "revealAndResolve"  /\ revealAndResolve(l, call.proven = Defenders(lobbyOf(l)), hits)
    \/ call.fn = "proveDefenses"     /\ proveDefenses(l, call.proven, hits)
    \/ call.fn = "finalizeScoring"   /\ finalizeScoring(l)
    \/ call.fn = "expireAttack"      /\ expireAttack(l)
    \/ call.fn = "openGlobalDefense" /\ openGlobalDefense

(* simulateContract: would the call go through on the state of this block. *)
scores(l) ==
    LET s == maybeOpenDraw(store)
        p == published(s, lobbyOf(l).epochId)
    IN  /\ maybeOpenDrawOK(store)
        /\ s.attacks[lobbyOf(l).epochId].revealed \/ revealOK(s, lobbyOf(l).epochId)
        /\ p.lobbies[l].resolvedAtBlock # 0 \/ resolveAllOK(p, l, {})

publishes(l) ==
    LET s == maybeOpenDraw(store) IN
    /\ maybeOpenDrawOK(store)
    /\ s.attacks[lobbyOf(l).epochId].revealed \/ revealOK(s, lobbyOf(l).epochId)
    /\ lobbyOf(l).resolvedAtBlock = 0 => Defenders(lobbyOf(l)) # {}

simulates(call) ==
    LET l == call.lobby IN
    CASE call.fn = "startOperation"    -> ~store.paused /\ activateOK(store, l)
      [] call.fn = "cancelLobby"       -> /\ lobbyOf(l).status = "OPEN"
                                          /\ block >= lobbyOf(l).deadlineBlock
                                          /\ underFilled(lobbyOf(l))
                                          /\ closeUnfilledOK(store, l)
      [] call.fn = "unlockRound"       -> \/ attackOf(l).decryptionUnlocked
                                          \/ completeAttackOK(store, lobbyOf(l).epochId)
      [] call.fn = "revealAndResolve"  -> IF call.proven = Defenders(lobbyOf(l))
                                          THEN scores(l) ELSE publishes(l)
      [] call.fn = "proveDefenses"     -> proveOK(store, l, call.proven)
      [] call.fn = "finalizeScoring"   -> finalizeIfReadyOK(store, l)
      [] call.fn = "expireAttack"      -> /\ unpublished(attackOf(l))
                                          /\ block >= attackOf(l).impactBlock
                                                      + lobbyOf(l).graceBlocks
      [] call.fn = "openGlobalDefense" -> /\ ~store.paused
                                          /\ maybeCloseDrawOK(store)
                                          /\ openDrawOK(maybeCloseDraw(store))

-----------------------------------------------------------------------------
(* Going to sleep.                                                         *)

nextEpochBoundary(b) ==
    Genesis + ((b - Genesis) \div store.params.epochBlocks + 1) * store.params.epochBlocks

(* A mutant: sleeps to the farthest deadline it knows.                     *)
FaultyNextDelay(at, b) ==
    LET future == {x \in at : x > b}
    IN  IF \E x \in at : x <= b /\ x # NEVER THEN 1
        ELSE Min({Max(future) - b, SweepBlocks})

(* In blocks: one, when something is due, or as far as the nearest         *)
(* deadline, no longer than the idle cap.                                  *)
nextDelay(at, b) ==
    LET future == {x \in at : x > b}
    IN  IF \E x \in at : x <= b /\ x # NEVER THEN 1
        ELSE Min({Min(future) - b, SweepBlocks})

sleeps(job, at) ==
    LET all == {at[l] : l \in DOMAIN at} \cup {nextEpochBoundary(job.head)}
    IN  timer' = block + nextDelay(all, job.head)

(* advance returns: the sweep takes the next operation, or opens the draw; *)
(* a nudge is over.                                                        *)
returns(j, job, at) ==
    /\ UNCHANGED timer
    /\ IF j = "nudge"
       THEN jobs' = [jobs EXCEPT ![j] = Idle] /\ UNCHANGED wakes
       ELSE /\ wakes' = Append(wakes, at)
            /\ jobs' = [jobs EXCEPT ![j] =
                  IF job.lobby < job.last
                  THEN [Idle EXCEPT !.pc = "lobby", !.lobby = job.lobby + 1,
                                    !.head = job.head, !.last = job.last]
                  ELSE [Idle EXCEPT !.pc = "send", !.head = job.head, !.last = job.last,
                                    !.sends = <<Call("openGlobalDefense", 0, {})>>]]

goesOn(j, job) == jobs' = [jobs EXCEPT ![j] = job] /\ UNCHANGED <<timer, wakes>>

sendsNext(j, job, calls) == goesOn(j, [job EXCEPT !.pc = "send", !.sends = calls])

-----------------------------------------------------------------------------
(* tick and nudge begin a pass.                                            *)

Wake ==
    /\ jobs["sweep"].pc = "idle"
    /\ block >= timer \/ block = MaxBlock
    /\ jobs' = [jobs EXCEPT !["sweep"] =
           IF LobbyIds = {}
           THEN [Idle EXCEPT !.pc = "send", !.head = block,
                             !.sends = <<Call("openGlobalDefense", 0, {})>>]
           ELSE [Idle EXCEPT !.pc = "lobby", !.lobby = 1, !.head = block,
                             !.last = Len(store.lobbies)]]
    /\ wakes' = <<>>
    /\ UNCHANGED <<block, store, acted, timer, budget, answers>>

(* A page offers to reveal a round that has landed and is not scored.      *)
nudge(l) ==
    /\ jobs["nudge"].pc = "idle" /\ budget > 0
    /\ block >= attackOf(l).impactBlock /\ lobbyOf(l).resolvedAtBlock = 0
    /\ jobs' = [jobs EXCEPT !["nudge"] = [Idle EXCEPT !.pc = "lobby", !.lobby = l, !.head = block]]
    /\ budget' = budget - 1
    /\ UNCHANGED <<block, store, acted, timer, wakes, answers>>

-----------------------------------------------------------------------------
(* The reads of advance and revealAndScore, one await each.                *)

ReadLobby(j) ==
    LET job == jobs[j]
        lobby == lobbyOf(job.lobby)
    IN  /\ job.pc = "lobby"
        /\ CASE lobby.status = "OPEN" /\ job.head < lobby.deadlineBlock ->
                    returns(j, job, lobby.deadlineBlock)
             [] lobby.status = "OPEN" /\ job.head >= lobby.deadlineBlock ->
                    sendsNext(j, job, <<Call("startOperation", job.lobby, {})>>)
             [] lobby.status = "ACTIVE" -> goesOn(j, [job EXCEPT !.pc = "attack"])
             [] OTHER -> returns(j, job, NEVER)

ReadAttack(j) ==
    LET job == jobs[j]
        attack == attackOf(job.lobby)
    IN  /\ job.pc = "attack"
        /\ CASE attack.decryptionUnlocked -> goesOn(j, [job EXCEPT !.pc = "trajectory"])
             [] ~attack.decryptionUnlocked /\ job.head < attack.impactBlock ->
                    returns(j, job, attack.impactBlock)
             [] OTHER -> sendsNext(j, job, <<Call("unlockRound", job.lobby, {})>>)

(* After its own unlock the keeper reads the attack once more.             *)
RereadAttack(j) ==
    LET job == jobs[j] IN
    /\ job.pc = "unlocked"
    /\ IF attackOf(job.lobby).decryptionUnlocked
       THEN goesOn(j, [job EXCEPT !.pc = "trajectory"])
       ELSE returns(j, job, DUE_NOW)

ReadTrajectory(j) ==
    LET job == jobs[j] IN
    /\ job.pc = "trajectory"
    /\ goesOn(j, [job EXCEPT !.pc = "attempts", !.published = attackOf(job.lobby).revealed])

pending(l) == {w \in Defenders(lobbyOf(l)) : ~lobbyOf(l).seats[w].revealed}

(* Asked for on the contract's word alone, whatever was read.              *)
expiry(l) == <<Call("expireAttack", l, {})>>

(* The calls that finish the round, from what the two reads said; sent     *)
(* once the network has signed.                                            *)
batches(l, subset) ==
    LET chunk == CHOOSE s \in SUBSET subset : Cardinality(s) = Min({Batch, Cardinality(subset)})
        first == <<Call("proveDefenses", l, chunk)>>
    IN  IF subset = {} THEN <<>>
        ELSE IF subset = chunk THEN first
        ELSE first \o <<Call("proveDefenses", l, subset \ chunk)>>

finishing(l, isPublished) ==
    IF ~isPublished /\ pending(l) = Defenders(lobbyOf(l))
                    /\ Cardinality(Defenders(lobbyOf(l))) <= Batch
    THEN <<Call("revealAndResolve", l, Defenders(lobbyOf(l)))>>
    ELSE (IF isPublished THEN <<>> ELSE <<Call("revealAndResolve", l, {})>>)
         \o batches(l, pending(l)) \o <<Call("finalizeScoring", l, {})>>

ReadAttempts(j) ==
    LET job == jobs[j] IN
    /\ job.pc = "attempts"
    /\ IF job.published /\ pending(job.lobby) = {}
       THEN sendsNext(j, job, expiry(job.lobby))
       ELSE goesOn(j, [job EXCEPT !.pc = "attested",
                                  !.sends = finishing(job.lobby, job.published)
                                            \o expiry(job.lobby)])

Read(j) ==
    /\ \/ ReadLobby(j) \/ ReadAttack(j) \/ RereadAttack(j)
       \/ ReadTrajectory(j) \/ ReadAttempts(j)
    /\ UNCHANGED <<block, store, acted, budget, answers>>

-----------------------------------------------------------------------------
(* The confidential network signs, or attestMs runs out.                   *)

Signed(j) ==
    /\ jobs[j].pc = "attested"
    /\ goesOn(j, [jobs[j] EXCEPT !.pc = "send"])
    /\ UNCHANGED <<block, store, acted, budget, answers>>

(* A mutant: the pass ends on a failed reveal.                             *)
FaultyUnattested(j) == returns(j, jobs[j], DUE_NOW)

(* Expiry is asked for all the same.                                       *)
unattested(j) ==
    sendsNext(j, [jobs[j] EXCEPT !.due = TRUE], expiry(jobs[j].lobby))

Unsigned(j) ==
    /\ jobs[j].pc = "attested"
    /\ unattested(j)
    /\ UNCHANGED <<block, store, acted, budget, answers>>

-----------------------------------------------------------------------------
(* trySend: simulate, then write and wait for the receipt.                 *)

(* A mutant: an operation just started is done with.                       *)
FaultyAfterStart == NEVER

afterStart == DUE_NOW

(* revealAndScore is under way.                                            *)
revealing(job) ==
    \/ job.pc \in {"trajectory", "attempts", "attested"}
    \/ /\ job.pc \in {"send", "mined"}
       /\ Head(job.sends).fn \in {"revealAndResolve", "proveDefenses", "finalizeScoring"}

(* The count of actions is the service's: a send that went through counts  *)
(* for every revealAndScore under way, whichever job it was of.            *)
counted(j, ok) ==
    acted' = [i \in Jobs |->
        /\ i = j => Head(jobs[j].sends).fn # "expireAttack"
        /\ acted[i] \/ (ok /\ revealing(jobs[i]))]

(* What the pass does with the answer.                                     *)
answered(j, ok) ==
    LET job  == jobs[j]
        fn   == Head(job.sends).fn
        rest == Tail(job.sends)
    IN  /\ counted(j, ok)
        /\ CASE fn = "startOperation" ->
                    IF ok THEN returns(j, job, afterStart)
                    ELSE sendsNext(j, job, <<Call("cancelLobby", job.lobby, {})>>)
             [] fn = "cancelLobby" -> returns(j, job, IF ok THEN NEVER ELSE DUE_NOW)
             [] fn = "unlockRound" ->
                    IF ok THEN goesOn(j, [job EXCEPT !.pc = "unlocked", !.sends = <<>>])
                    ELSE returns(j, job, DUE_NOW)
             [] fn = "expireAttack" ->
                    returns(j, job, IF acted[j] \/ job.due THEN DUE_NOW ELSE NEVER)
             [] fn = "openGlobalDefense" ->
                    /\ sleeps(job, wakes)
                    /\ jobs' = [jobs EXCEPT ![j] = [Idle EXCEPT !.head = job.head,
                                                               !.last = job.last]]
                    /\ UNCHANGED wakes
             [] OTHER -> sendsNext(j, job, rest)

Simulate(j) ==
    /\ jobs[j].pc = "send"
    /\ IF simulates(Head(jobs[j].sends))
       THEN goesOn(j, [jobs[j] EXCEPT !.pc = "mined"]) /\ UNCHANGED acted
       ELSE answered(j, FALSE)
    /\ UNCHANGED <<block, store, budget, answers>>

(* The transaction is mined: it happens, or reverts because somebody else  *)
(* came first.                                                             *)
Mined(j) ==
    /\ jobs[j].pc = "mined"
    /\ \/ does(Head(jobs[j].sends)) /\ answered(j, TRUE)
       \/ /\ ~simulates(Head(jobs[j].sends))
          /\ answered(j, FALSE)
          /\ UNCHANGED <<block, store>>
    /\ UNCHANGED <<budget, answers>>

(* The RPC loses a send, or the receipt of one that was mined all the same;*)
(* or a read.  revealAndScore catches what its reads throw, as it does a   *)
(* network that does not sign; any other read throws the pass away.        *)
LostSend(j) ==
    /\ jobs[j].pc \in {"send", "mined"} /\ answered(j, FALSE)
    /\ \/ UNCHANGED <<block, store>>
       \/ jobs[j].pc = "mined" /\ does(Head(jobs[j].sends))

LostRead(j) ==
    /\ jobs[j].pc \notin {"idle", "attested", "send", "mined"}
    /\ IF revealing(jobs[j]) THEN unattested(j) /\ UNCHANGED acted
       ELSE /\ jobs' = [jobs EXCEPT ![j] = Idle]
            /\ timer' = IF j = "sweep" THEN block + 1 ELSE timer
            /\ wakes' = IF j = "sweep" THEN <<>> ELSE wakes
            /\ UNCHANGED acted
    /\ UNCHANGED <<block, store>>

Lost(j) ==
    /\ budget > 0 /\ budget' = budget - 1 /\ answers' = FALSE
    /\ LostSend(j) \/ LostRead(j)

Step(j) == Read(j) \/ Signed(j) \/ Unsigned(j) \/ Simulate(j) \/ Mined(j)

-----------------------------------------------------------------------------
(* Everybody else: players, and the browsers that send the same calls.     *)

(* Bound: players open operations of their own where there are no draws,   *)
(* and every one after the first is an incident.                           *)
Opened ==
    /\ store.interval = 0
    /\ \E w \in Openers, config \in Configs, d \in 0 .. MaxDeadline : createLobby(w, config, d)

Played ==
    \/ LobbyIds = {} /\ Opened
    \/ \E l \in LobbyIds, w \in Players : joinLobby(w, l)
    \/ block \in DefenseBlocks /\ \E l \in LobbyIds, w \in Defending : submitDefense(w, l)

(* A page closes the application window of an operation that did not fill  *)
(* (useProtocolAdvance).                                                   *)
Advanced(l) ==
    /\ "cancelLobby" \in Browsers
    /\ lobbyOf(l).status = "OPEN" /\ block >= lobbyOf(l).deadlineBlock
    /\ underFilled(lobbyOf(l))
    /\ cancelLobby(l)

(* One transaction of the command-line keeper, which never reveals.        *)
Scripted(l) ==
    LET due == CASE lobbyOf(l).status = "OPEN" -> {"startOperation", "cancelLobby"}
                 [] lobbyOf(l).status = "ACTIVE" ->
                        IF attackOf(l).decryptionUnlocked THEN {"expireAttack"} ELSE {"unlockRound"}
                 [] OTHER -> {}
    IN  \E fn \in due \cap Browsers : does(Call(fn, l, {}))

(* One transaction of a client that carries the reveal itself.             *)
Revealed(l) ==
    \E fn \in {"unlockRound", "revealAndResolve", "proveDefenses"} \cap Browsers :
        \E proven \in SUBSET Defenders(lobbyOf(l)) :
            /\ fn = "unlockRound" => proven = {}
            /\ does(Call(fn, l, proven))

Browsed == \E l \in LobbyIds : Advanced(l) \/ Scripted(l) \/ Revealed(l)

KeeperNext ==
    \/ (Tick \/ Played) /\ UNCHANGED <<jobs, acted, timer, wakes, budget, answers>>
    \/ /\ budget > 0 /\ budget' = budget - 1
       /\ (LobbyIds # {} /\ Opened) \/ Browsed
       /\ UNCHANGED <<jobs, acted, timer, wakes, answers>>
    \/ Wake
    \/ \E l \in LobbyIds : nudge(l)
    \/ \E j \in Jobs : Step(j) \/ Lost(j)

KeeperSpec == KeeperInit /\ [][KeeperNext]_keeperVars

(* The process runs: blocks come, its timer fires, its awaits end.  Nobody *)
(* else is counted on; but a network that signed a trajectory signs, sooner*)
(* or later, the defenses flown against it.                                *)
BlocksCome == []<>(block = MaxBlock) \/ []<><<Tick>>_keeperVars

TimerFires ==
    []<>(jobs["sweep"].pc # "idle" \/ (block < timer /\ block # MaxBlock))
        \/ []<><<Wake>>_keeperVars

AwaitsEnd == \A j \in Jobs : []<>(jobs[j].pc = "idle") \/ []<><<Step(j)>>_keeperVars

SignsTheRest ==
    LET sweep == jobs["sweep"] IN
    <>[]~(sweep.pc = "attested" /\ attackOf(sweep.lobby).revealed)
        \/ []<><<Signed("sweep")>>_keeperVars

KeeperFairSpec == KeeperSpec /\ BlocksCome /\ TimerFires /\ AwaitsEnd /\ SignsTheRest
=============================================================================
