----------------------------- MODULE KeeperProofs ---------------------------
(***************************************************************************)
(* Theorems about the keeper, for any number of operations, any batch, any *)
(* idle cap and any loss of reads, sends and signatures: it adds no step   *)
(* to the contract, and it is up for every deadline.                       *)
(***************************************************************************)
EXTENDS KeeperProps, AegylaxStepProofs

Fns ==
    { "startOperation", "cancelLobby", "unlockRound", "revealAndResolve",
      "proveDefenses", "finalizeScoring", "expireAttack", "openGlobalDefense" }

Calls == [fn : Fns, lobby : Nat, proven : SUBSET Players]

(* A pass goes on after these, and is over after any other.                *)
Middles == {"revealAndResolve", "proveDefenses", "finalizeScoring"}

Past == {"attack", "unlocked", "trajectory", "attempts", "attested"}

Awaited == {"lobby", "send", "mined"} \cup Past

IsJob(job) ==
    job \in [ pc : {"idle"} \cup Awaited, lobby : Nat, head : Nat, last : Nat,
              sends : Seq(Calls), published : BOOLEAN, due : BOOLEAN ]

-----------------------------------------------------------------------------
(* What a job may be at.                                                   *)

(* A call for operation l brings proofs of defenses that were sent, and    *)
(* only the first two are made before the operation has started.           *)
CallFor(l, call) ==
    /\ call.fn # "openGlobalDefense" /\ call.lobby = l
    /\ call.proven \subseteq Defenders(lobbyOf(l))
    /\ call.fn \notin {"startOperation", "cancelLobby"} => lobbyOf(l).status # "OPEN"

(* Calls after which the pass goes on, and such calls up to one that ends  *)
(* it.                                                                     *)
GoesOn(l, calls) ==
    /\ calls \in Seq(Calls)
    /\ \A i \in 1 .. Len(calls) : CallFor(l, calls[i]) /\ calls[i].fn \in Middles

Ends(l, calls) ==
    /\ calls \in Seq(Calls) /\ Len(calls) > 0
    /\ \A i \in 1 .. Len(calls) :
          CallFor(l, calls[i]) /\ (calls[i].fn \in Middles <=> i # Len(calls))

(* The last thing a sweep does.                                            *)
Opens(j, job) ==
    /\ j = "sweep" /\ job.lobby = 0 /\ job.pc \in {"send", "mined"}
    /\ job.sends = <<Call("openGlobalDefense", 0, {})>>

(* Past its first read, a pass looks at an operation that has started or   *)
(* whose applications had closed when the pass began.                      *)
Late(job) ==
    \/ lobbyOf(job.lobby).status # "OPEN"
    \/ job.head >= lobbyOf(job.lobby).deadlineBlock

Works(job) ==
    /\ job.lobby \in LobbyIds /\ job.pc # "idle"
    /\ job.pc \in Past => lobbyOf(job.lobby).status # "OPEN"
    /\ job.pc \in {"attested", "send", "mined"} => Ends(job.lobby, job.sends)
    /\ job.pc = "lobby" \/ Late(job)

JobOK(j, job) ==
    /\ IsJob(job)
    /\ job.head <= block /\ job.last <= Len(store.lobbies)
    /\ \/ job.pc = "idle" /\ job.lobby = 0
       \/ /\ job.head >= Genesis /\ (Opens(j, job) \/ Works(job))
          /\ j = "sweep" => job.lobby <= job.last

KInv ==
    /\ FairPlay /\ block >= Genesis
    /\ jobs = [j \in Jobs |-> jobs[j]] /\ \A j \in Jobs : JobOK(j, jobs[j])

-----------------------------------------------------------------------------
(* The contract under the keeper.                                          *)

(* No step takes back an operation, a defense, a start or an end.          *)
Onward ==
    /\ block <= block' /\ LobbyIds \subseteq LobbyIds'
    /\ \A l \in LobbyIds :
          /\ Defenders(lobbyOf(l)) \subseteq Defenders(lobbyOf(l))'
          /\ lobbyOf(l).status # "OPEN" => lobbyOf(l)'.status # "OPEN"
          /\ lobbyOf(l)'.deadlineBlock = lobbyOf(l).deadlineBlock

LEMMA MovesOnward ==
    ASSUME NEW n, NEW x \in SoundLobby, NEW y, NEW a, NEW b,
           FairLobby(n, x, a), RoomMove(x, y, a, b)
    PROVE  /\ Defenders(x) \subseteq Defenders(y)
           /\ x.status # "OPEN" => y.status # "OPEN"
           /\ y.deadlineBlock = x.deadlineBlock
<1>1. x.status \in LobbyStatus
  BY LobbyFields
<1>2. Defenders(x) \subseteq Defenders(y)
  <2> SUFFICES ASSUME NEW w \in Players, x.seats[w].defendedAt # 0
               PROVE  y.seats[w].defendedAt # 0
    BY DEF Defenders
  <2>1. QED
    BY DEF RoomMove, Kept, Resting, ClosedUnfilled, Reseated, Acted, Scored1, Judged1,
           Expired, Paid1, SameRound, SameShot, ShotsScored
<1>3. x.status # "OPEN" => y.status # "OPEN"
  BY DEF RoomMove, Kept, Resting, ClosedUnfilled, Reseated, Acted, Scored1, Judged1,
         Expired, Paid1
<1>4. y.deadlineBlock = x.deadlineBlock
  BY MoveKeepsTerms DEF SameTerms
<1>5. QED
  BY <1>2, <1>3, <1>4

LEMMA GoingOnward ==
    ASSUME FairPlay, block >= Genesis, [Next]_vars
    PROVE  FairPlay' /\ block' >= Genesis /\ Onward
<1>1. FairPlay' /\ IInv /\ Fair(block, store) /\ block \in Nat /\ Genesis \in Nat
  BY NextFair, NumbersAssumption DEF FairPlay, IInv
<1>2. CASE block' = block + 1 /\ store' = store
  BY <1>1, <1>2 DEF Onward, LobbyIds, lobbyOf
<1>3. CASE block' = block /\ StepOf(store, store')
  <2>1. LobbyIds \subseteq LobbyIds'
    BY <1>3 DEF StepOf, Ids, LobbyIds
  <2>2. ASSUME NEW l \in LobbyIds
        PROVE  /\ Defenders(lobbyOf(l)) \subseteq Defenders(lobbyOf(l))'
               /\ lobbyOf(l).status # "OPEN" => lobbyOf(l)'.status # "OPEN"
               /\ lobbyOf(l)'.deadlineBlock = lobbyOf(l).deadlineBlock
    <3> DEFINE x == store.lobbies[l]
               y == store'.lobbies[l]
               e == x.epochId
    <3>1. l \in Ids(store) /\ Sound(store)
      BY <1>1 DEF LobbyIds, Ids, IInv
    <3>2. x \in SoundLobby /\ FairLobby(block, x, store.attacks[e])
      BY <1>1, <3>1, LobbyOf DEF Fair
    <3>3. RoomMove(x, y, store.attacks[e], store'.attacks[e])
      BY <1>3, <3>1 DEF StepOf, MoveOf
    <3>4. lobbyOf(l) = x /\ lobbyOf(l)' = y
      BY DEF lobbyOf
    <3> HIDE DEF x, y, e
    <3>5. /\ Defenders(x) \subseteq Defenders(y)
          /\ x.status # "OPEN" => y.status # "OPEN"
          /\ y.deadlineBlock = x.deadlineBlock
      BY <3>2, <3>3, MovesOnward
    <3>6. Defenders(lobbyOf(l))' = Defenders(y)
      BY <3>4 DEF Defenders
    <3>7. QED
      BY <3>4, <3>5, <3>6
  <2>3. QED
    BY <1>1, <1>3, <2>1, <2>2 DEF Onward
<1>4. QED
  BY <1>1, <1>2, <1>3, NextSteps

LEMMA CallsStand ==
    ASSUME Onward, NEW l \in LobbyIds, NEW calls, Ends(l, calls)
    PROVE  Ends(l, calls)'
<1>1. /\ Defenders(lobbyOf(l)) \subseteq Defenders(lobbyOf(l))'
      /\ lobbyOf(l).status # "OPEN" => lobbyOf(l)'.status # "OPEN"
  BY DEF Onward
<1>2. \A call : CallFor(l, call) => CallFor(l, call)'
  BY <1>1 DEF CallFor
<1>3. QED
  BY <1>2 DEF Ends

LEMMA JobStands ==
    ASSUME Onward, FairPlay, FairPlay', NEW j, NEW job, JobOK(j, job)
    PROVE  JobOK(j, job)'
<1>1. /\ block \in Nat /\ block' \in Nat /\ block <= block'
      /\ Len(store.lobbies) \in Nat /\ Len(store'.lobbies) \in Nat
      /\ LobbyIds \subseteq LobbyIds'
  BY StorageFields DEF FairPlay, IInv, Onward
<1>2. Len(store.lobbies) <= Len(store'.lobbies)
  BY <1>1 DEF LobbyIds
<1>3. /\ job.head <= block' /\ job.last <= Len(store'.lobbies)
  BY <1>1, <1>2 DEF JobOK, IsJob
<1>4. ASSUME Works(job)
      PROVE  Works(job)'
  <2>1. job.lobby \in LobbyIds /\ job.lobby \in LobbyIds'
    BY <1>1, <1>4 DEF Works
  <2>2. /\ lobbyOf(job.lobby).status # "OPEN" => lobbyOf(job.lobby)'.status # "OPEN"
        /\ lobbyOf(job.lobby)'.deadlineBlock = lobbyOf(job.lobby).deadlineBlock
    BY <2>1 DEF Onward
  <2>3. Ends(job.lobby, job.sends) => Ends(job.lobby, job.sends)'
    BY <2>1, CallsStand
  <2>4. QED
    BY <1>4, <2>1, <2>2, <2>3 DEF Works, Late
<1>5. QED
  BY <1>3, <1>4 DEF JobOK, Opens

-----------------------------------------------------------------------------
(* Every call is one anybody may make.                                     *)

LEMMA DoesAStep ==
    ASSUME NEW call, does(call),
           \/ call.fn = "openGlobalDefense"
           \/ /\ call.lobby \in LobbyIds
              /\ call.proven \subseteq Defenders(lobbyOf(call.lobby))
    PROVE  Next
<1> DEFINE l == call.lobby
           proven == call.proven
<1>1. CASE call.fn = "openGlobalDefense"
  BY <1>1 DEF does, Next
<1>2. CASE call.fn # "openGlobalDefense"
  <2>1. l \in LobbyIds /\ proven \subseteq Defenders(lobbyOf(l))
    BY <1>2
  <2>2. proven \cap Hitting \in SUBSET proven
    OBVIOUS
  <2>3. \/ startOperation(l) \/ cancelLobby(l) \/ unlockRound(l) \/ expireAttack(l)
        \/ \E withProofs \in BOOLEAN, hits \in SUBSET proven :
              revealAndResolve(l, withProofs, hits)
        \/ \E hits \in SUBSET proven : proveDefenses(l, proven, hits)
        \/ finalizeScoring(l)
    <3>1. (proven = Defenders(lobbyOf(l))) \in BOOLEAN
      OBVIOUS
    <3> HIDE DEF l, proven
    <3>2. QED
      BY <1>2, <2>2, <3>1 DEF does, l, proven
  <2> HIDE DEF l, proven
  <2>4. Lifecycle(l)
    BY <2>1, <2>3 DEF Lifecycle, Scored
  <2>5. QED
    BY <2>1, <2>4 DEF Next
<1>3. QED
  BY <1>1, <1>2

LEMMA PlayedAStep ==
    ASSUME Played \/ Opened
    PROVE  Next
<1>1. Defending \subseteq Players /\ Openers \subseteq Players
  BY KeeperAssumption
<1>2. CASE Opened
  BY <1>1, <1>2 DEF Opened, Next
<1>3. CASE Played /\ ~Opened
  BY <1>1, <1>3 DEF Played, Next, Seated
<1>4. QED
  BY <1>2, <1>3

LEMMA BrowsedAStep ==
    ASSUME Browsed
    PROVE  Next
<1>1. PICK l \in LobbyIds : Advanced(l) \/ Scripted(l) \/ Revealed(l)
  BY DEF Browsed
<1>2. CASE Advanced(l)
  BY <1>2 DEF Advanced, Next, Lifecycle
<1>3. CASE Scripted(l)
  <2>1. PICK fn : does(Call(fn, l, {}))
    BY <1>3 DEF Scripted
  <2>2. /\ Call(fn, l, {}).lobby = l /\ Call(fn, l, {}).proven = {}
    BY DEF Call
  <2>3. QED
    BY <2>1, <2>2, DoesAStep
<1>4. CASE Revealed(l)
  <2>1. PICK fn \in {"unlockRound", "revealAndResolve", "proveDefenses"} \cap Browsers,
             proven \in SUBSET Defenders(lobbyOf(l)) : does(Call(fn, l, proven))
    BY <1>4, Zenon DEF Revealed
  <2>2. /\ Call(fn, l, proven).lobby = l /\ Call(fn, l, proven).proven = proven
    BY DEF Call
  <2>3. QED
    BY <2>1, <2>2, DoesAStep
<1>5. QED
  BY <1>1, <1>2, <1>3, <1>4

(* What a job is about to send.                                            *)
LEMMA HeadOfEnds ==
    ASSUME NEW l \in LobbyIds, NEW calls, Ends(l, calls)
    PROVE  /\ Head(calls) \in Calls /\ CallFor(l, Head(calls))
           /\ Head(calls).fn \in Middles => Ends(l, Tail(calls))
<1>1. calls \in Seq(Calls) /\ calls # <<>> /\ Len(calls) \in Nat
  BY EmptySeq, LenProperties DEF Ends
<1>2. /\ Head(calls) \in Calls /\ Head(calls) = calls[1]
      /\ Tail(calls) \in Seq(Calls) /\ Len(Tail(calls)) = Len(calls) - 1
      /\ \A i \in 1 .. Len(Tail(calls)) : Tail(calls)[i] = calls[i + 1]
  BY <1>1, HeadTailProperties
<1>3. \A i \in 1 .. Len(calls) :
        CallFor(l, calls[i]) /\ (calls[i].fn \in Middles <=> i # Len(calls))
  BY DEF Ends
<1>4. 1 \in 1 .. Len(calls)
  BY <1>1 DEF Ends
<1>5. CallFor(l, calls[1]) /\ (calls[1].fn \in Middles <=> 1 # Len(calls))
  BY <1>3, <1>4
<1>6. CallFor(l, Head(calls)) /\ (Head(calls).fn \in Middles <=> 1 # Len(calls))
  BY <1>2, <1>5 DEF CallFor
<1>7. ASSUME Head(calls).fn \in Middles
      PROVE  Ends(l, Tail(calls))
  <2>1. Len(calls) # 1 /\ Len(Tail(calls)) > 0
    BY <1>1, <1>2, <1>4, <1>6, <1>7
  <2>2. ASSUME NEW i \in 1 .. Len(Tail(calls))
        PROVE  /\ CallFor(l, Tail(calls)[i])
               /\ Tail(calls)[i].fn \in Middles <=> i # Len(Tail(calls))
    <3>1. i + 1 \in 1 .. Len(calls) /\ Tail(calls)[i] = calls[i + 1]
          /\ (i # Len(Tail(calls)) <=> i + 1 # Len(calls))
      BY <1>1, <1>2
    <3>2. CallFor(l, calls[i + 1]) /\ (calls[i + 1].fn \in Middles <=> i + 1 # Len(calls))
      BY <1>3, <3>1
    <3>3. QED
      BY <3>1, <3>2 DEF CallFor
  <2>3. QED
    BY <1>2, <2>1, <2>2 DEF Ends
<1>8. QED
  BY <1>2, <1>6, <1>7

(* What a pass may send, and what it does with the answer when the call is *)
(* the last of the sweep.                                                  *)
LEMMA Sending ==
    ASSUME KInv, NEW j \in Jobs, jobs[j].pc \in {"send", "mined"}
    PROVE  \/ /\ Opens(j, jobs[j])
              /\ Head(jobs[j].sends).fn = "openGlobalDefense"
           \/ /\ Works(jobs[j]) /\ Ends(jobs[j].lobby, jobs[j].sends)
              /\ CallFor(jobs[j].lobby, Head(jobs[j].sends))
              /\ Head(jobs[j].sends) \in Calls
<1>1. Opens(j, jobs[j]) \/ Works(jobs[j])
  BY DEF KInv, JobOK
<1>2. CASE Opens(j, jobs[j])
  BY <1>2 DEF Opens, Call
<1>3. CASE Works(jobs[j])
  BY <1>3, HeadOfEnds DEF Works
<1>4. QED
  BY <1>1, <1>2, <1>3

LEMMA KeeperSide ==
    ASSUME KInv, [KeeperNext]_keeperVars
    PROVE  [Next]_vars
<1>1. CASE UNCHANGED keeperVars
  BY <1>1 DEF keeperVars, vars
<1>2. CASE Tick \/ Played \/ Opened
  BY <1>2, PlayedAStep DEF Next
<1>3. CASE Browsed
  BY <1>3, BrowsedAStep
<1>4. CASE Wake \/ \E l \in LobbyIds : nudge(l)
  BY <1>4 DEF Wake, nudge, vars
<1>5. ASSUME NEW j \in Jobs, Mined(j) \/ LostSend(j)
      PROVE  [Next]_vars
  <2> DEFINE call == Head(jobs[j].sends)
  <2>1. (jobs[j].pc = "mined" /\ does(call)) \/ UNCHANGED vars
    BY <1>5 DEF Mined, LostSend, vars
  <2>2. CASE jobs[j].pc = "mined" /\ does(call)
    <3>1. \/ call.fn = "openGlobalDefense"
          \/ jobs[j].lobby \in LobbyIds /\ CallFor(jobs[j].lobby, call)
      BY <2>2, Sending DEF Works
    <3> HIDE DEF call
    <3>2. QED
      BY <2>2, <3>1, DoesAStep DEF CallFor
  <2>3. QED
    BY <2>1, <2>2
<1>6. ASSUME NEW j \in Jobs, Read(j) \/ Signed(j) \/ Unsigned(j) \/ Simulate(j) \/ LostRead(j)
      PROVE  UNCHANGED vars
  BY <1>6 DEF Read, Signed, Unsigned, Simulate, LostRead, vars
<1>7. QED
  BY <1>1, <1>2, <1>3, <1>4, <1>5, <1>6 DEF KeeperNext, Step, Lost

-----------------------------------------------------------------------------
(* What a pass decides to send.                                            *)

LEMMA OneCall ==
    ASSUME NEW l \in LobbyIds, FairPlay, NEW fn \in Fns \ Middles, fn # "openGlobalDefense",
           fn \notin {"startOperation", "cancelLobby"} => lobbyOf(l).status # "OPEN"
    PROVE  Ends(l, <<Call(fn, l, {})>>)
<1> DEFINE call == Call(fn, l, {})
<1>1. /\ call.fn = fn /\ call.lobby = l /\ call.proven = {} /\ call \in Calls
  <2>1. l \in Nat
    BY StorageFields DEF LobbyIds, FairPlay, IInv
  <2>2. QED
    BY <2>1 DEF Call, Calls
<1> HIDE DEF call
<1>2. /\ <<call>> \in Seq(Calls) /\ Len(<<call>>) = 1
      /\ \A i \in 1 .. Len(<<call>>) : i = 1 /\ <<call>>[i] = call
  BY <1>1
<1>3. CallFor(l, call) /\ call.fn \notin Middles
  BY <1>1 DEF CallFor
<1>4. Ends(l, <<call>>)
  BY <1>2, <1>3 DEF Ends
<1>5. QED
  BY <1>4 DEF call

LEMMA NoCall ==
    ASSUME NEW l
    PROVE  GoesOn(l, <<>>)
BY DEF GoesOn

LEMMA OneMiddle ==
    ASSUME NEW l \in LobbyIds, FairPlay, lobbyOf(l).status # "OPEN",
           NEW fn \in Middles, NEW proven \in SUBSET Defenders(lobbyOf(l))
    PROVE  GoesOn(l, <<Call(fn, l, proven)>>)
<1> DEFINE call == Call(fn, l, proven)
<1>1. /\ call.fn = fn /\ call.lobby = l /\ call.proven = proven /\ call \in Calls
  <2>1. l \in Nat
    BY StorageFields DEF LobbyIds, FairPlay, IInv
  <2>2. proven \in SUBSET Players
    BY DEF Defenders
  <2>3. fn \in Fns
    BY DEF Middles, Fns
  <2>4. QED
    BY <2>1, <2>2, <2>3 DEF Call, Calls
<1>2. CallFor(l, call) /\ call.fn \in Middles
  BY <1>1 DEF CallFor, Middles
<1> HIDE DEF call
<1>3. /\ <<call>> \in Seq(Calls) /\ Len(<<call>>) = 1
      /\ \A i \in 1 .. Len(<<call>>) : i = 1 /\ <<call>>[i] = call
  BY <1>1
<1>4. GoesOn(l, <<call>>)
  BY <1>2, <1>3 DEF GoesOn
<1>5. QED
  BY <1>4 DEF call

LEMMA Joining ==
    ASSUME NEW l, NEW a, NEW b, GoesOn(l, a)
    PROVE  /\ GoesOn(l, b) => GoesOn(l, a \o b)
           /\ Ends(l, b) => Ends(l, a \o b)
<1>1. ASSUME b \in Seq(Calls)
      PROVE  /\ a \o b \in Seq(Calls) /\ Len(a \o b) = Len(a) + Len(b)
             /\ \A i \in 1 .. Len(a \o b) :
                   IF i <= Len(a) THEN i \in 1 .. Len(a) /\ (a \o b)[i] = a[i]
                   ELSE i - Len(a) \in 1 .. Len(b) /\ (a \o b)[i] = b[i - Len(a)]
             /\ Len(a) \in Nat /\ Len(b) \in Nat
  BY <1>1, ConcatProperties, LenProperties DEF GoesOn
<1>2. ASSUME GoesOn(l, b) PROVE GoesOn(l, a \o b)
  <2>1. b \in Seq(Calls)
    BY <1>2 DEF GoesOn
  <2>2. ASSUME NEW i \in 1 .. Len(a \o b)
        PROVE  CallFor(l, (a \o b)[i]) /\ (a \o b)[i].fn \in Middles
    <3>1. CASE i <= Len(a)
      <4>1. i \in 1 .. Len(a) /\ (a \o b)[i] = a[i]
        BY <1>1, <2>1, <3>1
      <4>2. QED
        BY <4>1 DEF GoesOn
    <3>2. CASE ~(i <= Len(a))
      <4>1. i - Len(a) \in 1 .. Len(b) /\ (a \o b)[i] = b[i - Len(a)]
        BY <1>1, <2>1, <3>2
      <4>2. QED
        BY <1>2, <4>1 DEF GoesOn
    <3>3. QED
      BY <3>1, <3>2
  <2>3. QED
    BY <1>1, <2>1, <2>2 DEF GoesOn
<1>3. ASSUME Ends(l, b) PROVE Ends(l, a \o b)
  <2>1. b \in Seq(Calls) /\ Len(b) > 0
    BY <1>3 DEF Ends
  <2>2. ASSUME NEW i \in 1 .. Len(a \o b)
        PROVE  /\ CallFor(l, (a \o b)[i])
               /\ (a \o b)[i].fn \in Middles <=> i # Len(a \o b)
    <3>1. CASE i <= Len(a)
      <4>1. i \in 1 .. Len(a) /\ (a \o b)[i] = a[i] /\ i # Len(a \o b)
        BY <1>1, <2>1, <3>1
      <4>2. QED
        BY <4>1 DEF GoesOn
    <3>2. CASE ~(i <= Len(a))
      <4>1. /\ i - Len(a) \in 1 .. Len(b) /\ (a \o b)[i] = b[i - Len(a)]
            /\ i # Len(a \o b) <=> i - Len(a) # Len(b)
        BY <1>1, <2>1, <3>2
      <4>2. QED
        BY <1>3, <4>1 DEF Ends
    <3>3. QED
      BY <3>1, <3>2
  <2>3. QED
    BY <1>1, <2>1, <2>2 DEF Ends
<1>4. QED
  BY <1>2, <1>3

(* A finite set has a part of every smaller size.                          *)
LEMMA PartOfSize ==
    ASSUME NEW S, IsFiniteSet(S), NEW k \in 0 .. Cardinality(S)
    PROVE  \E T \in SUBSET S : Cardinality(T) = k
<1>1. Cardinality(S) \in Nat /\ ExistsBijection(1 .. Cardinality(S), S)
  BY FS_CardinalityType
<1>2. PICK f : f \in Bijection(1 .. Cardinality(S), S)
  BY <1>1 DEF ExistsBijection
<1> DEFINE T == {f[i] : i \in 1 .. k}
           g == [i \in 1 .. k |-> f[i]]
<1>3. T \in SUBSET S
  BY <1>1, <1>2 DEF Bijection, Injection, Surjection
<1>4. g \in Bijection(1 .. k, T)
  <2>1. /\ f \in [1 .. Cardinality(S) -> S] /\ 1 .. k \subseteq 1 .. Cardinality(S)
        /\ \A a, b \in 1 .. Cardinality(S) : f[a] = f[b] => a = b
    BY <1>1, <1>2 DEF Bijection, Injection, IsInjective
  <2>2. g \in [1 .. k -> T] /\ \A a, b \in 1 .. k : g[a] = g[b] => a = b
    BY <2>1
  <2>3. \A t \in T : \E i \in 1 .. k : g[i] = t
    OBVIOUS
  <2> HIDE DEF T, g
  <2>4. QED
    BY <2>2, <2>3 DEF Bijection, Injection, Surjection, IsInjective
<1>5. IsFiniteSet(1 .. k) /\ Cardinality(1 .. k) = k
  BY <1>1, FS_Interval
<1>6. Cardinality(T) = k
  <2>1. ExistsBijection(1 .. k, T)
    BY <1>4 DEF ExistsBijection
  <2>2. QED
    BY <1>5, <2>1, FS_Bijection
<1>7. QED
  BY <1>3, <1>6

LEMMA BatchesGoOn ==
    ASSUME NEW l \in LobbyIds, FairPlay, lobbyOf(l).status # "OPEN",
           NEW subset \in SUBSET Defenders(lobbyOf(l))
    PROVE  GoesOn(l, batches(l, subset))
<1> DEFINE size == Min({Batch, Cardinality(subset)})
           chunk == CHOOSE s \in SUBSET subset : Cardinality(s) = size
<1>1. IsFiniteSet(subset) /\ Cardinality(subset) \in Nat
  <2>1. IsFiniteSet(subset)
    BY PlayersAssumption, FS_Subset DEF Defenders
  <2>2. QED
    BY <2>1, FS_CardinalityType
<1>2. Batch \in Nat
  BY KeeperAssumption, NumbersAssumption
<1>3. size \in 0 .. Cardinality(subset)
  <2> DEFINE S == {Batch, Cardinality(subset)}
  <2>1. \E x \in S : \A y \in S : x =< y
    BY <1>1, <1>2
  <2>2. size \in S /\ \A y \in S : size =< y
    BY <2>1 DEF Min
  <2> HIDE DEF size
  <2>3. QED
    BY <1>1, <1>2, <2>2
<1> HIDE DEF size
<1>4. \E T \in SUBSET subset : Cardinality(T) = size
  BY <1>1, <1>3, PartOfSize
<1>5. chunk \in SUBSET subset
  BY <1>4
<1>6. /\ GoesOn(l, <<Call("proveDefenses", l, chunk)>>)
      /\ GoesOn(l, <<Call("proveDefenses", l, subset \ chunk)>>)
  <2>1. chunk \in SUBSET Defenders(lobbyOf(l)) /\ subset \ chunk \in SUBSET Defenders(lobbyOf(l))
    BY <1>5
  <2>2. "proveDefenses" \in Middles
    BY DEF Middles
  <2> HIDE DEF chunk
  <2>3. QED
    BY <2>1, <2>2, OneMiddle
<1>7. \/ batches(l, subset) = <<>>
      \/ batches(l, subset) = <<Call("proveDefenses", l, chunk)>>
      \/ batches(l, subset) = <<Call("proveDefenses", l, chunk)>>
                              \o <<Call("proveDefenses", l, subset \ chunk)>>
  BY DEF batches, size
<1> HIDE DEF chunk
<1>8. QED
  BY <1>6, <1>7, NoCall, Joining

LEMMA FinishingGoesOn ==
    ASSUME NEW l \in LobbyIds, FairPlay, lobbyOf(l).status # "OPEN", NEW isPublished
    PROVE  GoesOn(l, finishing(l, isPublished))
<1> DEFINE first == <<Call("revealAndResolve", l, {})>>
           all   == <<Call("revealAndResolve", l, Defenders(lobbyOf(l)))>>
           last  == <<Call("finalizeScoring", l, {})>>
           mid   == batches(l, pending(l))
<1>1. GoesOn(l, first) /\ GoesOn(l, all) /\ GoesOn(l, last) /\ GoesOn(l, <<>>)
  <2>1. /\ "revealAndResolve" \in Middles /\ "finalizeScoring" \in Middles
        /\ {} \in SUBSET Defenders(lobbyOf(l))
        /\ Defenders(lobbyOf(l)) \in SUBSET Defenders(lobbyOf(l))
    BY DEF Middles
  <2>2. QED
    BY <2>1, OneMiddle, NoCall
<1>2. GoesOn(l, mid)
  <2>1. pending(l) \in SUBSET Defenders(lobbyOf(l))
    BY DEF pending
  <2>2. QED
    BY <2>1, BatchesGoOn
<1>3. \/ finishing(l, isPublished) = all
      \/ finishing(l, isPublished) = (<<>> \o mid) \o last
      \/ finishing(l, isPublished) = (first \o mid) \o last
  BY DEF finishing
<1> HIDE DEF first, all, last, mid
<1>4. GoesOn(l, (<<>> \o mid) \o last) /\ GoesOn(l, (first \o mid) \o last)
  <2>1. GoesOn(l, <<>> \o mid) /\ GoesOn(l, first \o mid)
    BY <1>1, <1>2, Joining
  <2>2. QED
    BY <1>1, <2>1, Joining
<1>5. QED
  BY <1>1, <1>3, <1>4

-----------------------------------------------------------------------------
(* The four things a step of a pass comes to.                              *)

(* It goes on with its operation,                                          *)
Stays(j) ==
    \E next :
        /\ jobs' = [jobs EXCEPT ![j] = next] /\ UNCHANGED <<timer, wakes>>
        /\ jobs[j].pc # "idle" /\ next.pc # "idle" /\ JobOK(j, next)
        /\ next.lobby = jobs[j].lobby
        /\ next.head = jobs[j].head /\ next.last = jobs[j].last

(* or is done with it and says when to come back: at the deadline, if that *)
(* is what the operation waits for,                                        *)
Waits(head, l, at) ==
    lobbyOf(l).status = "OPEN" /\ head < lobbyOf(l).deadlineBlock =>
        at = lobbyOf(l).deadlineBlock

ComesBack(j) ==
    \E at \in Int :
        /\ Works(jobs[j]) /\ Waits(jobs[j].head, jobs[j].lobby, at)
        /\ returns(j, jobs[j], at)

(* or has opened the draw and sleeps,                                      *)
FallsAsleep(j) ==
    /\ Opens(j, jobs[j]) /\ sleeps(jobs[j], wakes) /\ UNCHANGED wakes
    /\ jobs' = [jobs EXCEPT ![j] = [Idle EXCEPT !.head = jobs[j].head, !.last = jobs[j].last]]

(* or is thrown away.                                                      *)
IsThrownAway(j) ==
    /\ jobs' = [jobs EXCEPT ![j] = Idle]
    /\ IF j = "sweep" THEN timer' = block + 1 /\ wakes' = <<>>
       ELSE UNCHANGED <<timer, wakes>>

(* What a pass reads of an operation.                                      *)
LEMMA WhatIsRead ==
    ASSUME FairPlay, NEW l \in LobbyIds
    PROVE  /\ lobbyOf(l).deadlineBlock \in Nat /\ lobbyOf(l).status \in LobbyStatus
           /\ attackOf(l).impactBlock \in Nat /\ attackOf(l).revealed \in BOOLEAN
           /\ lobbyOf(l).epochId \in EpochIds /\ attackOf(l).status # "NONE"
<1> DEFINE x == store.lobbies[l]
           a == store.attacks[x.epochId]
<1>1. /\ l \in Ids(store) /\ Sound(store) /\ Fair(block, store)
  BY DEF FairPlay, IInv, LobbyIds, Ids
<1>2. x \in SoundLobby /\ a \in SoundAttack /\ FairLobby(block, x, a)
  BY <1>1, LobbyOf DEF Fair
<1>3. lobbyOf(l) = x /\ attackOf(l) = a
  BY DEF lobbyOf, attackOf
<1> HIDE DEF x, a
<1>4. QED
  BY <1>2, <1>3, LobbyFields DEF SoundAttack, Attack, FairLobby

LEMMA NextJob ==
    ASSUME KInv, NEW j \in Jobs, Works(jobs[j]), NEW next, IsJob(next), Works(next),
           next.lobby = jobs[j].lobby, next.head = jobs[j].head,
           next.last = jobs[j].last, goesOn(j, next)
    PROVE  Stays(j)
<1>1. JobOK(j, jobs[j]) /\ jobs[j].pc # "idle"
  BY DEF KInv, Works
<1>2. JobOK(j, next) /\ next.pc # "idle"
  BY <1>1 DEF JobOK, Works
<1>3. QED
  BY <1>1, <1>2 DEF Stays, goesOn

LEMMA NextSends ==
    ASSUME KInv, NEW j \in Jobs, Works(jobs[j]), NEW job, IsJob(job),
           job.lobby = jobs[j].lobby, job.head = jobs[j].head,
           job.last = jobs[j].last, Late(job),
           NEW calls, Ends(job.lobby, calls), sendsNext(j, job, calls)
    PROVE  Stays(j)
<1> DEFINE next == [job EXCEPT !.pc = "send", !.sends = calls]
<1>1. IsJob(next)
  BY DEF IsJob, Ends, Awaited
<1>2. /\ next.pc = "send" /\ next.sends = calls /\ next.lobby = job.lobby
      /\ next.head = job.head /\ next.last = job.last
  BY DEF IsJob
<1>3. goesOn(j, next)
  BY DEF sendsNext
<1> HIDE DEF next
<1>4. Works(next)
  BY <1>2 DEF Works, Late, Past
<1>5. QED
  BY <1>1, <1>2, <1>3, <1>4, NextJob

(* Reading on, of an operation that has started.                           *)
LEMMA NextReads ==
    ASSUME KInv, NEW j \in Jobs, Works(jobs[j]), NEW next, IsJob(next),
           next.lobby = jobs[j].lobby, next.head = jobs[j].head,
           next.last = jobs[j].last, goesOn(j, next),
           lobbyOf(next.lobby).status # "OPEN", next.pc \in Past,
           next.pc = "attested" => Ends(next.lobby, next.sends)
    PROVE  Stays(j)
<1>1. Works(next)
  BY DEF Works, Late, Past
<1>2. QED
  BY <1>1, NextJob

(* Coming back, whatever for, once the applications have closed.           *)
LEMMA LateComesBack ==
    ASSUME KInv, NEW j \in Jobs, Works(jobs[j]), Late(jobs[j]), NEW at \in Int,
           returns(j, jobs[j], at)
    PROVE  ComesBack(j)
<1>1. JobOK(j, jobs[j]) /\ jobs[j].lobby \in LobbyIds /\ jobs[j].head \in Nat
  BY DEF KInv, JobOK, IsJob, Works
<1>2. lobbyOf(jobs[j].lobby).deadlineBlock \in Nat
  BY <1>1, WhatIsRead DEF KInv
<1>3. Waits(jobs[j].head, jobs[j].lobby, at)
  BY <1>1, <1>2 DEF Waits, Late
<1>4. QED
  BY <1>3 DEF ComesBack

LEMMA ReadLobbyMoves ==
    ASSUME KInv, NEW j \in Jobs, ReadLobby(j)
    PROVE  Stays(j) \/ ComesBack(j)
<1> DEFINE job == jobs[j]
           l == job.lobby
           lobby == lobbyOf(l)
<1>1. JobOK(j, job) /\ Works(job) /\ job.pc = "lobby" /\ l \in LobbyIds /\ IsJob(job)
  BY DEF KInv, JobOK, Opens, ReadLobby, Works
<1>2. lobby.deadlineBlock \in Nat /\ job.head \in Nat
  BY <1>1, WhatIsRead DEF KInv, IsJob
<1>3. \/ /\ lobby.status = "OPEN" /\ job.head < lobby.deadlineBlock
         /\ returns(j, job, lobby.deadlineBlock)
      \/ /\ lobby.status = "OPEN" /\ job.head >= lobby.deadlineBlock
         /\ sendsNext(j, job, <<Call("startOperation", job.lobby, {})>>)
      \/ lobby.status = "ACTIVE" /\ goesOn(j, [job EXCEPT !.pc = "attack"])
      \/ lobby.status # "OPEN" /\ returns(j, job, NEVER)
  <2>1. ~(job.head < lobby.deadlineBlock) => job.head >= lobby.deadlineBlock
    BY <1>2
  <2> HIDE DEF job
  <2>2. QED
    BY <2>1, Zenon DEF ReadLobby, job
<1>4. CASE /\ lobby.status = "OPEN" /\ job.head < lobby.deadlineBlock
           /\ returns(j, job, lobby.deadlineBlock)
  BY <1>1, <1>2, <1>4 DEF ComesBack, Waits
<1>5. CASE /\ lobby.status = "OPEN" /\ job.head >= lobby.deadlineBlock
           /\ sendsNext(j, job, <<Call("startOperation", job.lobby, {})>>)
  <2>1. Ends(l, <<Call("startOperation", l, {})>>)
    <3>1. "startOperation" \in Fns \ Middles
      BY DEF Fns, Middles
    <3>2. QED
      BY <1>1, <3>1, OneCall DEF KInv
  <2>2. Late(job)
    BY <1>5 DEF Late
  <2> HIDE DEF job
  <2>3. QED
    BY <1>1, <1>5, <2>1, <2>2, NextSends DEF job
<1>6. CASE lobby.status = "ACTIVE" /\ goesOn(j, [job EXCEPT !.pc = "attack"])
  <2> DEFINE next == [job EXCEPT !.pc = "attack"]
  <2>1. /\ IsJob(next) /\ next.pc = "attack" /\ next.lobby = job.lobby
        /\ next.head = job.head /\ next.last = job.last
    BY <1>1 DEF IsJob, Awaited, Past
  <2>2. goesOn(j, next) /\ lobbyOf(next.lobby).status # "OPEN" /\ next.pc \in Past
    BY <1>6, <2>1 DEF Past
  <2> HIDE DEF next
  <2>3. QED
    BY <1>1, <2>1, <2>2, NextReads
<1>7. CASE lobby.status # "OPEN" /\ returns(j, job, NEVER)
  BY <1>1, <1>7, LateComesBack DEF Late, NEVER
<1>8. QED
  BY <1>3, <1>4, <1>5, <1>6, <1>7

LEMMA ReadAttackMoves ==
    ASSUME KInv, NEW j \in Jobs, ReadAttack(j)
    PROVE  Stays(j) \/ ComesBack(j)
<1> DEFINE job == jobs[j]
           l == job.lobby
           attack == attackOf(l)
<1>1. /\ Works(job) /\ job.pc = "attack" /\ l \in LobbyIds /\ IsJob(job)
      /\ lobbyOf(l).status # "OPEN" /\ Late(job)
  BY DEF KInv, JobOK, Opens, ReadAttack, Works, Past, Late
<1>2. attack.impactBlock \in Int
  BY <1>1, WhatIsRead DEF KInv
<1>3. \/ goesOn(j, [job EXCEPT !.pc = "trajectory"])
      \/ returns(j, job, attack.impactBlock)
      \/ sendsNext(j, job, <<Call("unlockRound", job.lobby, {})>>)
  BY Zenon DEF ReadAttack
<1>4. CASE goesOn(j, [job EXCEPT !.pc = "trajectory"])
  <2> DEFINE next == [job EXCEPT !.pc = "trajectory"]
  <2>1. /\ IsJob(next) /\ next.pc = "trajectory" /\ next.lobby = job.lobby
        /\ next.head = job.head /\ next.last = job.last
    BY <1>1 DEF IsJob, Awaited, Past
  <2>2. goesOn(j, next) /\ lobbyOf(next.lobby).status # "OPEN" /\ next.pc \in Past
    BY <1>1, <1>4, <2>1 DEF Past
  <2> HIDE DEF next
  <2>3. QED
    BY <1>1, <2>1, <2>2, NextReads
<1>5. CASE returns(j, job, attack.impactBlock)
  BY <1>1, <1>2, <1>5, LateComesBack
<1>6. CASE sendsNext(j, job, <<Call("unlockRound", job.lobby, {})>>)
  <2>1. "unlockRound" \in Fns \ Middles
    BY DEF Fns, Middles
  <2>2. Ends(l, <<Call("unlockRound", l, {})>>)
    BY <1>1, <2>1, OneCall DEF KInv
  <2> HIDE DEF job
  <2>3. QED
    BY <1>1, <1>6, <2>2, NextSends DEF job
<1>7. QED
  BY <1>3, <1>4, <1>5, <1>6

LEMMA RereadAttackMoves ==
    ASSUME KInv, NEW j \in Jobs, RereadAttack(j)
    PROVE  Stays(j) \/ ComesBack(j)
<1> DEFINE job == jobs[j]
           next == [job EXCEPT !.pc = "trajectory"]
<1>1. /\ Works(job) /\ IsJob(job) /\ lobbyOf(job.lobby).status # "OPEN" /\ Late(job)
  BY DEF KInv, JobOK, Opens, RereadAttack, Works, Past, Late
<1>2. CASE goesOn(j, next)
  <2>1. /\ IsJob(next) /\ next.pc = "trajectory" /\ next.lobby = job.lobby
        /\ next.head = job.head /\ next.last = job.last
    BY <1>1 DEF IsJob, Awaited, Past
  <2>2. goesOn(j, next) /\ lobbyOf(next.lobby).status # "OPEN" /\ next.pc \in Past
    BY <1>1, <1>2, <2>1 DEF Past
  <2> HIDE DEF next
  <2>3. QED
    BY <1>1, <2>1, <2>2, NextReads
<1>3. CASE returns(j, job, DUE_NOW)
  BY <1>1, <1>3, LateComesBack DEF DUE_NOW
<1>4. QED
  BY <1>2, <1>3 DEF RereadAttack

LEMMA ReadTrajectoryMoves ==
    ASSUME KInv, NEW j \in Jobs, ReadTrajectory(j)
    PROVE  Stays(j)
<1> DEFINE job == jobs[j]
           next == [job EXCEPT !.pc = "attempts", !.published = attackOf(job.lobby).revealed]
<1>1. /\ Works(job) /\ IsJob(job) /\ lobbyOf(job.lobby).status # "OPEN"
      /\ attackOf(job.lobby).revealed \in BOOLEAN
  BY WhatIsRead DEF KInv, JobOK, Opens, ReadTrajectory, Works, Past
<1>2. /\ IsJob(next) /\ next.pc = "attempts" /\ next.lobby = job.lobby
      /\ next.head = job.head /\ next.last = job.last
  BY <1>1 DEF IsJob, Awaited, Past
<1>3. goesOn(j, next) /\ lobbyOf(next.lobby).status # "OPEN" /\ next.pc \in Past
  BY <1>1, <1>2 DEF Past, ReadTrajectory
<1> HIDE DEF next
<1>4. QED
  BY <1>1, <1>2, <1>3, NextReads

LEMMA ExpiryEnds ==
    ASSUME FairPlay, NEW l \in LobbyIds, lobbyOf(l).status # "OPEN"
    PROVE  Ends(l, expiry(l))
<1>1. "expireAttack" \in Fns \ Middles
  BY DEF Fns, Middles
<1>2. QED
  BY <1>1, OneCall DEF expiry

LEMMA ReadAttemptsMoves ==
    ASSUME KInv, NEW j \in Jobs, ReadAttempts(j)
    PROVE  Stays(j)
<1> DEFINE job == jobs[j]
           l == job.lobby
           calls == finishing(l, job.published) \o expiry(l)
           next == [job EXCEPT !.pc = "attested", !.sends = calls]
<1>1. /\ Works(job) /\ IsJob(job) /\ lobbyOf(l).status # "OPEN" /\ l \in LobbyIds
      /\ Late(job)
  BY DEF KInv, JobOK, Opens, ReadAttempts, Works, Past, Late
<1>2. Ends(l, expiry(l)) /\ Ends(l, calls)
  <2>1. Ends(l, expiry(l)) /\ GoesOn(l, finishing(l, job.published))
    BY <1>1, ExpiryEnds, FinishingGoesOn DEF KInv
  <2>2. QED
    BY <2>1, Joining
<1>3. sendsNext(j, job, expiry(l)) \/ goesOn(j, next)
  BY DEF ReadAttempts
<1>4. CASE sendsNext(j, job, expiry(l))
  BY <1>1, <1>2, <1>4, NextSends
<1>5. CASE goesOn(j, next)
  <2>1. calls \in Seq(Calls)
    BY <1>2 DEF Ends
  <2> HIDE DEF calls
  <2>2. /\ IsJob(next) /\ next.pc = "attested" /\ next.lobby = job.lobby
        /\ next.head = job.head /\ next.last = job.last /\ next.sends = calls
    BY <1>1, <2>1 DEF IsJob, Awaited, Past
  <2> HIDE DEF next
  <2>3. QED
    BY <1>1, <1>2, <1>5, <2>2, NextReads DEF Past
<1>6. QED
  BY <1>3, <1>4, <1>5

(* Expiry asked for after a failed reveal.                                 *)
LEMMA UnattestedMoves ==
    ASSUME KInv, NEW j \in Jobs, jobs[j].pc \in {"trajectory", "attempts", "attested"},
           unattested(j)
    PROVE  Stays(j)
<1> DEFINE job == jobs[j]
           l == job.lobby
           due == [job EXCEPT !.due = TRUE]
<1>1. /\ Works(job) /\ IsJob(job) /\ lobbyOf(l).status # "OPEN" /\ l \in LobbyIds
      /\ Late(job)
  BY DEF KInv, JobOK, Opens, Works, Past, Late
<1>2. /\ IsJob(due) /\ due.lobby = job.lobby /\ due.head = job.head /\ due.last = job.last
  BY <1>1 DEF IsJob
<1>3. sendsNext(j, due, expiry(l))
  BY DEF unattested
<1> HIDE DEF due
<1>4. Late(due) /\ Ends(due.lobby, expiry(l))
  BY <1>1, <1>2, ExpiryEnds DEF Late, KInv
<1>5. QED
  BY <1>1, <1>2, <1>3, <1>4, NextSends

LEMMA SigningMoves ==
    ASSUME KInv, NEW j \in Jobs, Signed(j) \/ Unsigned(j)
    PROVE  Stays(j)
<1> DEFINE job == jobs[j]
           next == [job EXCEPT !.pc = "send"]
<1>1. CASE Signed(j)
  <2>1. /\ Works(job) /\ IsJob(job) /\ Late(job) /\ Ends(job.lobby, job.sends)
    BY <1>1 DEF KInv, JobOK, Opens, Signed, Works, Past, Late
  <2>2. /\ IsJob(next) /\ next.pc = "send" /\ next.lobby = job.lobby
        /\ next.head = job.head /\ next.last = job.last /\ next.sends = job.sends
    BY <2>1 DEF IsJob, Awaited
  <2>3. goesOn(j, next)
    BY <1>1 DEF Signed
  <2> HIDE DEF next
  <2>4. Works(next)
    BY <2>1, <2>2 DEF Works, Late, Past
  <2>5. QED
    BY <2>1, <2>2, <2>3, <2>4, NextJob
<1>2. CASE Unsigned(j)
  BY <1>2, UnattestedMoves DEF Unsigned
<1>3. QED
  BY <1>1, <1>2

(* Whatever the answer to a call.                                          *)
LEMMA AnswerMoves ==
    ASSUME KInv, NEW j \in Jobs, jobs[j].pc \in {"send", "mined"},
           NEW ok \in BOOLEAN, answered(j, ok)
    PROVE  Stays(j) \/ ComesBack(j) \/ FallsAsleep(j)
<1> DEFINE job == jobs[j]
           l == job.lobby
           call == Head(job.sends)
<1>1. CASE Opens(j, job)
  <2>1. call.fn = "openGlobalDefense"
    BY <1>1 DEF Opens, Call
  <2>2. /\ sleeps(job, wakes) /\ UNCHANGED wakes
        /\ jobs' = [jobs EXCEPT ![j] = [Idle EXCEPT !.head = job.head, !.last = job.last]]
    BY <2>1, Zenon DEF answered
  <2>3. QED
    BY <1>1, <2>2 DEF FallsAsleep
<1>2. CASE ~Opens(j, job)
  <2>1. /\ Works(job) /\ IsJob(job) /\ l \in LobbyIds /\ Late(job)
        /\ Ends(l, job.sends)
    BY <1>2 DEF KInv, JobOK, Works
  <2>2. /\ call \in Calls /\ CallFor(l, call)
        /\ call.fn \in Middles => Ends(l, Tail(job.sends))
    BY <2>1, HeadOfEnds
  <2>3. /\ call.fn \in Fns /\ call.fn # "openGlobalDefense"
        /\ call.fn \notin {"startOperation", "cancelLobby"} => lobbyOf(l).status # "OPEN"
    BY <2>2 DEF Calls, CallFor
  <2>5. \/ \E at \in Int : returns(j, job, at)
        \/ sendsNext(j, job, <<Call("cancelLobby", l, {})>>)
        \/ /\ call.fn = "unlockRound"
           /\ goesOn(j, [job EXCEPT !.pc = "unlocked", !.sends = <<>>])
        \/ call.fn \in Middles /\ sendsNext(j, job, Tail(job.sends))
    <3>1. DUE_NOW \in Int /\ NEVER \in Int /\ afterStart \in Int
      BY DEF DUE_NOW, NEVER, afterStart
    <3>2. CASE call.fn = "startOperation"
      BY <3>1, <3>2, Zenon DEF answered
    <3>3. CASE call.fn = "cancelLobby"
      BY <3>1, <3>3, Zenon DEF answered
    <3>4. CASE call.fn = "unlockRound"
      BY <3>1, <3>4, Zenon DEF answered
    <3>5. CASE call.fn = "expireAttack"
      BY <3>1, <3>5, Zenon DEF answered
    <3>6. CASE call.fn \in Middles
      <4>1. /\ call.fn # "startOperation" /\ call.fn # "cancelLobby"
            /\ call.fn # "unlockRound" /\ call.fn # "expireAttack"
            /\ call.fn # "openGlobalDefense"
        BY <3>6 DEF Middles
      <4>2. QED
        BY <3>6, <4>1, Zenon DEF answered
    <3>7. QED
      BY <2>3, <3>2, <3>3, <3>4, <3>5, <3>6 DEF Fns, Middles
  <2>6. CASE \E at \in Int : returns(j, job, at)
    BY <2>1, <2>6, LateComesBack
  <2>7. CASE sendsNext(j, job, <<Call("cancelLobby", l, {})>>)
    <3>1. "cancelLobby" \in Fns \ Middles
      BY DEF Fns, Middles
    <3>2. Ends(l, <<Call("cancelLobby", l, {})>>)
      BY <2>1, <3>1, OneCall DEF KInv
    <3>3. QED
      BY <2>1, <2>7, <3>2, NextSends
  <2>8. CASE /\ call.fn = "unlockRound"
             /\ goesOn(j, [job EXCEPT !.pc = "unlocked", !.sends = <<>>])
    <3> DEFINE next == [job EXCEPT !.pc = "unlocked", !.sends = <<>>]
    <3>1. /\ IsJob(next) /\ next.pc = "unlocked" /\ next.lobby = l
          /\ next.head = job.head /\ next.last = job.last
      <4>1. <<>> \in Seq(Calls)
        OBVIOUS
      <4> HIDE DEF job, l
      <4>2. QED
        BY <2>1, <4>1 DEF IsJob, Awaited, Past, l
    <3>2. goesOn(j, next) /\ lobbyOf(next.lobby).status # "OPEN"
      BY <2>3, <2>8, <3>1
    <3> HIDE DEF next
    <3>3. QED
      BY <2>1, <3>1, <3>2, NextReads DEF Past
  <2>9. CASE call.fn \in Middles /\ sendsNext(j, job, Tail(job.sends))
    <3>1. Ends(l, Tail(job.sends))
      BY <2>2, <2>9
    <3> HIDE DEF job
    <3>2. QED
      BY <2>1, <2>9, <3>1, NextSends DEF job
  <2>10. QED
    BY <2>5, <2>6, <2>7, <2>8, <2>9
<1>3. QED
  BY <1>1, <1>2

LEMMA SimulateMoves ==
    ASSUME KInv, NEW j \in Jobs, Simulate(j)
    PROVE  Stays(j) \/ ComesBack(j) \/ FallsAsleep(j)
<1> DEFINE job == jobs[j]
           next == [job EXCEPT !.pc = "mined"]
<1>1. job.pc = "send" /\ JobOK(j, job) /\ IsJob(job)
  BY DEF Simulate, KInv, JobOK
<1>2. CASE goesOn(j, next)
  <2>1. /\ IsJob(next) /\ next.pc = "mined" /\ next.lobby = job.lobby
        /\ next.head = job.head /\ next.last = job.last /\ next.sends = job.sends
    BY <1>1 DEF IsJob, Awaited
  <2> HIDE DEF next
  <2>2. Opens(j, job) => Opens(j, next)
    BY <1>1, <2>1 DEF Opens
  <2>3. Works(job) => Works(next)
    BY <1>1, <2>1 DEF Works, Late, Past
  <2>4. JobOK(j, next) /\ next.pc # "idle"
    BY <1>1, <2>1, <2>2, <2>3 DEF JobOK
  <2>5. QED
    BY <1>1, <1>2, <2>1, <2>4 DEF Stays, goesOn
<1>3. CASE answered(j, FALSE)
  BY <1>1, <1>3, AnswerMoves
<1>4. QED
  BY <1>2, <1>3 DEF Simulate

(* Every step of a pass is one of the four.                                *)
LEMMA StepMoves ==
    ASSUME KInv, NEW j \in Jobs, Step(j) \/ Lost(j)
    PROVE  Stays(j) \/ ComesBack(j) \/ FallsAsleep(j) \/ IsThrownAway(j)
<1>1. CASE Read(j)
  BY <1>1, ReadLobbyMoves, ReadAttackMoves, RereadAttackMoves, ReadTrajectoryMoves,
     ReadAttemptsMoves DEF Read
<1>2. CASE Signed(j) \/ Unsigned(j)
  BY <1>2, SigningMoves
<1>3. CASE Simulate(j)
  BY <1>3, SimulateMoves
<1>4. CASE Mined(j)
  <2>1. \E ok \in BOOLEAN : answered(j, ok)
    BY <1>4 DEF Mined
  <2>2. QED
    BY <1>4, <2>1, AnswerMoves DEF Mined
<1>5. CASE Lost(j)
  <2>1. CASE LostSend(j)
    BY <2>1, AnswerMoves DEF LostSend
  <2>2. CASE LostRead(j)
    <3>1. CASE revealing(jobs[j])
      <4>1. jobs[j].pc \in {"trajectory", "attempts", "attested"} /\ unattested(j)
        BY <2>2, <3>1 DEF LostRead, revealing
      <4>2. QED
        BY <4>1, UnattestedMoves
    <3>2. CASE ~revealing(jobs[j])
      BY <2>2, <3>2 DEF LostRead, IsThrownAway
    <3>3. QED
      BY <3>1, <3>2
  <2>3. QED
    BY <1>5, <2>1, <2>2 DEF Lost
<1>6. QED
  BY <1>1, <1>2, <1>3, <1>4, <1>5 DEF Step

-----------------------------------------------------------------------------
(* Every pass keeps its place.                                             *)

LEMMA OneJobMoves ==
    ASSUME KInv, Onward, FairPlay', block' >= Genesis,
           NEW j \in Jobs, NEW next, JobOK(j, next), jobs' = [jobs EXCEPT ![j] = next]
    PROVE  KInv'
<1>1. \A i \in Jobs : JobOK(i, jobs[i])
  BY DEF KInv
<1>2. jobs' = [i \in Jobs |-> IF i = j THEN next ELSE jobs[i]]
  BY DEF KInv
<1>3. ASSUME NEW i \in Jobs
      PROVE  JobOK(i, jobs[i])'
  <2>1. PICK job : job = jobs'[i]
    OBVIOUS
  <2>2. JobOK(i, job)
    BY <1>1, <1>2, <2>1
  <2>3. JobOK(i, job)'
    BY <2>2, JobStands DEF KInv
  <2>4. QED
    BY <2>1, <2>3 DEF JobOK, Opens, Works, Late, Ends, CallFor, lobbyOf
<1>4. QED
  BY <1>2, <1>3 DEF KInv

LEMMA NoJobMoves ==
    ASSUME KInv, Onward, FairPlay', block' >= Genesis, UNCHANGED jobs
    PROVE  KInv'
<1>1. ASSUME NEW i \in Jobs
      PROVE  JobOK(i, jobs[i])'
  <2>1. PICK job : job = jobs[i] /\ JobOK(i, job)
    BY DEF KInv
  <2>2. job = jobs'[i] /\ JobOK(i, job)
    BY <2>1
  <2>3. JobOK(i, job)'
    BY <2>2, JobStands DEF KInv
  <2>4. QED
    BY <2>2, <2>3 DEF JobOK, Opens, Works, Late, Ends, CallFor, lobbyOf
<1>2. QED
  BY <1>1 DEF KInv

LEMMA IdleOK ==
    ASSUME FairPlay, NEW j, NEW head \in Nat, NEW last \in Nat,
           head <= block, last <= Len(store.lobbies)
    PROVE  /\ JobOK(j, Idle)
           /\ JobOK(j, [Idle EXCEPT !.head = head, !.last = last])
<1>1. block \in Nat /\ Len(store.lobbies) \in Nat
  BY StorageFields DEF FairPlay, IInv
<1>2. <<>> \in Seq(Calls)
  OBVIOUS
<1> DEFINE next == [Idle EXCEPT !.head = head, !.last = last]
<1>3. /\ IsJob(Idle) /\ Idle.pc = "idle" /\ Idle.lobby = 0 /\ Idle.head = 0 /\ Idle.last = 0
  BY <1>2 DEF IsJob, Idle
<1>4. /\ IsJob(next) /\ next.pc = "idle" /\ next.lobby = 0
      /\ next.head = head /\ next.last = last
  BY <1>3 DEF IsJob
<1> HIDE DEF next
<1>5. JobOK(j, Idle) /\ JobOK(j, next)
  BY <1>1, <1>3, <1>4 DEF JobOK
<1>6. QED
  BY <1>5 DEF next

(* A job that differs from an idle one in these fields.                    *)
LEMMA IdleFields ==
    ASSUME NEW pc \in Awaited, NEW l \in Nat, NEW head \in Nat, NEW last \in Nat,
           NEW calls \in Seq(Calls)
    PROVE  /\ IsJob([Idle EXCEPT !.pc = pc, !.lobby = l, !.head = head, !.last = last])
           /\ IsJob([Idle EXCEPT !.pc = pc, !.lobby = l, !.head = head])
           /\ IsJob([Idle EXCEPT !.pc = pc, !.head = head, !.last = last, !.sends = calls])
           /\ IsJob([Idle EXCEPT !.pc = pc, !.head = head, !.sends = calls])
<1>1. IsJob(Idle)
  <2>1. <<>> \in Seq(Calls)
    OBVIOUS
  <2>2. QED
    BY <2>1 DEF IsJob, Idle
<1>2. QED
  BY <1>1 DEF IsJob

(* The next operation of a sweep.                                          *)
LEMMA LookingOK ==
    ASSUME FairPlay, NEW j, NEW l \in LobbyIds, NEW head \in Nat, NEW last \in Nat,
           Genesis <= head, head <= block, last <= Len(store.lobbies),
           j = "sweep" => l <= last,
           NEW next, IsJob(next), next.pc = "lobby", next.lobby = l,
           next.head = head, next.last = last
    PROVE  JobOK(j, next)
<1>1. Works(next)
  BY DEF Works, Past
<1>2. QED
  BY <1>1 DEF JobOK

LEMMA OpeningOK ==
    ASSUME FairPlay, NEW head \in Nat, NEW last \in Nat,
           Genesis <= head, head <= block, last <= Len(store.lobbies), NEW next,
           IsJob(next), next.pc = "send", next.lobby = 0, next.head = head, next.last = last,
           next.sends = <<Call("openGlobalDefense", 0, {})>>
    PROVE  JobOK("sweep", next)
<1>1. Opens("sweep", next)
  BY DEF Opens
<1>2. QED
  BY <1>1 DEF JobOK

LEMMA OpeningCalls == <<Call("openGlobalDefense", 0, {})>> \in Seq(Calls)
BY DEF Call, Calls, Fns

(* Where a job is after it comes back.                                     *)
LEMMA Returned ==
    ASSUME KInv, NEW j \in Jobs, Works(jobs[j]), NEW at, returns(j, jobs[j], at)
    PROVE  \E next :
              /\ jobs' = [jobs EXCEPT ![j] = next] /\ JobOK(j, next)
              /\ j = "sweep" =>
                    /\ next.pc # "idle" /\ next.head = jobs[j].head /\ next.last = jobs[j].last
                    /\ wakes' = Append(wakes, at)
                    /\ next.lobby = IF jobs[j].lobby < jobs[j].last THEN jobs[j].lobby + 1 ELSE 0
              /\ j # "sweep" => UNCHANGED wakes
<1> DEFINE job == jobs[j]
<1>1. /\ JobOK(j, job) /\ IsJob(job) /\ job.lobby \in LobbyIds /\ job.pc # "idle"
      /\ job.head \in Nat /\ job.last \in Nat /\ job.head >= Genesis /\ job.head <= block
      /\ job.last <= Len(store.lobbies) /\ job.lobby \in Nat
      /\ Genesis \in Nat /\ block \in Nat /\ Len(store.lobbies) \in Nat
      /\ LobbyIds = 1 .. Len(store.lobbies)
  <2>1. JobOK(j, job) /\ IsJob(job) /\ job.lobby \in LobbyIds /\ job.pc # "idle"
    BY DEF KInv, JobOK, Works
  <2>2. job.head \in Nat /\ job.last \in Nat /\ job.lobby \in Nat
    BY <2>1 DEF IsJob
  <2>3. job.head >= Genesis /\ job.head <= block /\ job.last <= Len(store.lobbies)
    BY <2>1 DEF JobOK
  <2>4. /\ Genesis \in Nat /\ block \in Nat /\ Len(store.lobbies) \in Nat
        /\ LobbyIds = 1 .. Len(store.lobbies)
    BY NumbersAssumption, StorageFields DEF KInv, FairPlay, IInv, LobbyIds
  <2>5. QED
    BY <2>1, <2>2, <2>3, <2>4
<1>2. CASE j # "sweep"
  <2>1. jobs' = [jobs EXCEPT ![j] = Idle] /\ UNCHANGED wakes
    BY <1>2 DEF returns, Jobs
  <2>2. JobOK(j, Idle)
    BY <1>1, IdleOK DEF KInv
  <2>3. QED
    BY <1>2, <2>1, <2>2
<1>3. CASE j = "sweep" /\ job.lobby < job.last
  <2> DEFINE next == [Idle EXCEPT !.pc = "lobby", !.lobby = job.lobby + 1,
                                  !.head = job.head, !.last = job.last]
  <2>1. jobs' = [jobs EXCEPT ![j] = next] /\ wakes' = Append(wakes, at)
    BY <1>3 DEF returns
  <2>2. job.lobby + 1 \in LobbyIds /\ job.lobby + 1 <= job.last
    BY <1>1, <1>3
  <2>3. /\ next.pc = "lobby" /\ next.lobby = job.lobby + 1
        /\ next.head = job.head /\ next.last = job.last
    BY DEF Idle
  <2>4. IsJob(next)
    <3>1. "lobby" \in Awaited /\ job.lobby + 1 \in Nat
      BY <1>1 DEF Awaited
    <3> HIDE DEF job
    <3>2. QED
      BY <1>1, <3>1, IdleFields, OpeningCalls DEF job
  <2> HIDE DEF next
  <2>5. JobOK(j, next)
    BY <1>1, <2>2, <2>3, <2>4, LookingOK DEF KInv
  <2>6. QED
    BY <1>3, <2>1, <2>3, <2>5
<1>4. CASE j = "sweep" /\ ~(job.lobby < job.last)
  <2> DEFINE next == [Idle EXCEPT !.pc = "send", !.head = job.head, !.last = job.last,
                                  !.sends = <<Call("openGlobalDefense", 0, {})>>]
  <2>1. jobs' = [jobs EXCEPT ![j] = next] /\ wakes' = Append(wakes, at)
    BY <1>4 DEF returns
  <2>2. /\ next.pc = "send" /\ next.lobby = 0
        /\ next.head = job.head /\ next.last = job.last
        /\ next.sends = <<Call("openGlobalDefense", 0, {})>>
    BY DEF Idle
  <2>3. IsJob(next)
    BY <1>1, IdleFields, OpeningCalls DEF Awaited
  <2> HIDE DEF next
  <2>4. JobOK("sweep", next)
    BY <1>1, <2>2, <2>3, OpeningOK DEF KInv
  <2>5. QED
    BY <1>4, <2>1, <2>2, <2>4
<1>5. QED
  BY <1>2, <1>3, <1>4

LEMMA Woken ==
    ASSUME KInv, Wake
    PROVE  \E next :
              /\ jobs' = [jobs EXCEPT !["sweep"] = next] /\ JobOK("sweep", next)
              /\ next.pc # "idle" /\ next.lobby = (IF LobbyIds = {} THEN 0 ELSE 1)
              /\ LobbyIds = {} => next.last = 0
<1>1. /\ Genesis \in Nat /\ block \in Nat /\ Len(store.lobbies) \in Nat
      /\ block >= Genesis /\ FairPlay /\ LobbyIds = 1 .. Len(store.lobbies)
  BY NumbersAssumption, StorageFields DEF KInv, FairPlay, IInv, LobbyIds
<1>2. CASE LobbyIds = {}
  <2> DEFINE next == [Idle EXCEPT !.pc = "send", !.head = block,
                                  !.sends = <<Call("openGlobalDefense", 0, {})>>]
  <2>1. jobs' = [jobs EXCEPT !["sweep"] = next]
    BY <1>2 DEF Wake
  <2>2. /\ next.pc = "send" /\ next.lobby = 0 /\ next.head = block /\ next.last = 0
        /\ next.sends = <<Call("openGlobalDefense", 0, {})>>
    BY DEF Idle
  <2>3. IsJob(next)
    BY <1>1, IdleFields, OpeningCalls DEF Awaited
  <2> HIDE DEF next
  <2>4. JobOK("sweep", next)
    BY <1>1, <2>2, <2>3, OpeningOK
  <2>5. QED
    BY <1>2, <2>1, <2>2, <2>4
<1>3. CASE LobbyIds # {}
  <2> DEFINE next == [Idle EXCEPT !.pc = "lobby", !.lobby = 1, !.head = block,
                                  !.last = Len(store.lobbies)]
  <2>1. jobs' = [jobs EXCEPT !["sweep"] = next]
    BY <1>3 DEF Wake
  <2>2. /\ next.pc = "lobby" /\ next.lobby = 1 /\ next.head = block
        /\ next.last = Len(store.lobbies)
    BY DEF Idle
  <2>3. 1 \in LobbyIds /\ 1 <= Len(store.lobbies)
    BY <1>1, <1>3
  <2>4. IsJob(next)
    BY <1>1, IdleFields, OpeningCalls DEF Awaited
  <2> HIDE DEF next
  <2>5. JobOK("sweep", next)
    BY <1>1, <2>2, <2>3, <2>4, LookingOK
  <2>6. QED
    BY <1>3, <2>1, <2>2, <2>5
<1>4. QED
  BY <1>2, <1>3

LEMMA Nudged ==
    ASSUME KInv, NEW l \in LobbyIds, nudge(l)
    PROVE  \E next :
              jobs' = [jobs EXCEPT !["nudge"] = next] /\ JobOK("nudge", next)
<1>1. /\ Genesis \in Nat /\ block \in Nat /\ Len(store.lobbies) \in Nat
      /\ block >= Genesis /\ FairPlay /\ l \in Nat
  BY NumbersAssumption, StorageFields DEF KInv, FairPlay, IInv, LobbyIds
<1> DEFINE next == [Idle EXCEPT !.pc = "lobby", !.lobby = l, !.head = block]
<1>2. jobs' = [jobs EXCEPT !["nudge"] = next]
  BY DEF nudge
<1>3. next.pc = "lobby" /\ next.lobby = l /\ next.head = block /\ next.last = 0
  BY DEF Idle
<1>4. IsJob(next)
  BY <1>1, IdleFields, OpeningCalls DEF Awaited
<1> HIDE DEF next
<1>5. JobOK("nudge", next)
  BY <1>1, <1>3, <1>4, LookingOK
<1>6. QED
  BY <1>2, <1>5

(* What any step is, to the keeper.                                        *)
LEMMA NextMoves ==
    ASSUME KInv, [KeeperNext]_keeperVars
    PROVE  \/ UNCHANGED <<jobs, timer, wakes>>
           \/ Wake
           \/ \E l \in LobbyIds : nudge(l)
           \/ \E j \in Jobs : Stays(j) \/ ComesBack(j) \/ FallsAsleep(j) \/ IsThrownAway(j)
BY StepMoves DEF KeeperNext, keeperVars

LEMMA KeepsItsPlace ==
    ASSUME KInv, [KeeperNext]_keeperVars
    PROVE  KInv' /\ Onward
<1>1. FairPlay' /\ block' >= Genesis /\ Onward
  BY KeeperSide, GoingOnward DEF KInv
<1>2. CASE UNCHANGED <<jobs, timer, wakes>>
  BY <1>1, <1>2, NoJobMoves
<1>3. CASE Wake
  <2>1. "sweep" \in Jobs
    BY DEF Jobs
  <2>2. QED
    BY <1>1, <1>3, <2>1, Woken, OneJobMoves
<1>4. CASE \E l \in LobbyIds : nudge(l)
  <2>1. "nudge" \in Jobs
    BY DEF Jobs
  <2>2. QED
    BY <1>1, <1>4, <2>1, Nudged, OneJobMoves
<1>5. ASSUME NEW j \in Jobs, Stays(j) \/ ComesBack(j) \/ FallsAsleep(j) \/ IsThrownAway(j)
      PROVE  KInv'
  <2>1. CASE Stays(j)
    BY <1>1, <2>1, OneJobMoves DEF Stays
  <2>2. CASE ComesBack(j)
    BY <1>1, <2>2, Returned, OneJobMoves DEF ComesBack
  <2>3. CASE FallsAsleep(j) \/ IsThrownAway(j)
    <3>1. /\ jobs[j].head \in Nat /\ jobs[j].last \in Nat
          /\ jobs[j].head <= block /\ jobs[j].last <= Len(store.lobbies)
      BY DEF KInv, JobOK, IsJob
    <3>2. /\ JobOK(j, Idle)
          /\ JobOK(j, [Idle EXCEPT !.head = jobs[j].head, !.last = jobs[j].last])
      BY <3>1, IdleOK DEF KInv
    <3>3. QED
      BY <1>1, <2>3, <3>2, OneJobMoves DEF FallsAsleep, IsThrownAway
  <2>4. QED
    BY <1>5, <2>1, <2>2, <2>3
<1>6. QED
  BY <1>1, <1>2, <1>3, <1>4, <1>5, NextMoves

-----------------------------------------------------------------------------
(* Going to sleep, and waking in time.                                     *)

(* The sweep holds an answer for each operation it has passed.             *)
Awake ==
    LET sweep == jobs["sweep"] IN
    sweep.pc # "idle" =>
        /\ Len(wakes) = IF sweep.lobby = 0 THEN sweep.last ELSE sweep.lobby - 1
        /\ \A l \in 1 .. Len(wakes) : Waits(sweep.head, l, wakes[l])

(* Asleep, it is up for the next epoch, and for the deadline of every      *)
(* operation whose applications it saw open: as many blocks late, at most, *)
(* as the sweep has taken.                                                 *)
Asleep ==
    LET sweep == jobs["sweep"] IN
    sweep.pc = "idle" /\ sweep.last > 0 =>
        /\ sweep.head >= Genesis
        /\ timer - block <= nextEpochBoundary(sweep.head) - sweep.head
        /\ \A l \in 1 .. sweep.last :
              lobbyOf(l).status = "OPEN" /\ lobbyOf(l).deadlineBlock > sweep.head =>
                  timer - lobbyOf(l).deadlineBlock <= block - sweep.head

Punctual == wakes \in Seq(Int) /\ timer \in Int /\ Awake /\ Asleep

(* No later than anything it knows of that is ahead.                       *)
LEMMA SleepIsShort ==
    ASSUME NEW at \in SUBSET Int, NEW b \in Nat, NEW x \in at, x > b
    PROVE  nextDelay(at, b) \in Int /\ nextDelay(at, b) <= x - b
<1> DEFINE future == {y \in at : y > b}
           least == Min(future)
<1>1. \A y \in future : y \in Nat /\ y > b
  <2>1. \A y \in at : y \in Int
    OBVIOUS
  <2>2. QED
    BY <2>1
<1>2. x \in future
  OBVIOUS
<1>3. SweepBlocks \in Nat
  BY KeeperAssumption
<1>4. least - b \in Nat /\ least - b <= x - b /\ x - b \in Int
  <2> HIDE DEF future
  <2>1. future \in SUBSET Nat
    BY <1>1
  <2>2. least \in future /\ least <= x
    BY <1>2, <2>1, LeastNumber
  <2> HIDE DEF least
  <2>3. least \in Nat /\ least > b /\ x \in Nat
    BY <1>1, <1>2, <2>2
  <2>4. QED
    BY <2>2, <2>3
<1> DEFINE delay == Min({least - b, SweepBlocks})
<1>5. delay \in Int /\ delay <= least - b
  <2> HIDE DEF least
  <2>1. {least - b, SweepBlocks} \in SUBSET Nat
    BY <1>3, <1>4
  <2>2. QED
    BY <2>1, <1>4, LeastNumber
<1>6. nextDelay(at, b) = 1 \/ nextDelay(at, b) = delay
  BY DEF nextDelay
<1> HIDE DEF delay, least
<1>7. QED
  BY <1>4, <1>5, <1>6

(* While the length of an epoch stands, so do the boundaries.              *)
LEMMA BoundariesStand ==
    ASSUME OneGrid, FairPlay, FairPlay', NEW b
    PROVE  nextEpochBoundary(b)' = nextEpochBoundary(b)
<1>1. store.params \in ParamSets /\ store'.params \in ParamSets
  BY StorageFields DEF FairPlay, IInv
<1>2. store'.params.epochBlocks = store.params.epochBlocks
  BY <1>1 DEF OneGrid
<1>3. QED
  BY <1>2 DEF nextEpochBoundary

LEMMA BoundaryAhead ==
    ASSUME FairPlay, NEW b \in Nat, b >= Genesis
    PROVE  nextEpochBoundary(b) \in Nat /\ nextEpochBoundary(b) > b
<1> DEFINE n == store.params.epochBlocks
           q == (b - Genesis) \div n
<1>1. n \in Nat \ {0} /\ Genesis \in Nat /\ b - Genesis \in Nat
  BY StorageFields, ParamFields, NumbersAssumption DEF FairPlay, IInv
<1> HIDE DEF n
<1>2. q \in Nat /\ b - Genesis < q * n + n
  BY <1>1, DivFacts
<1> HIDE DEF q
<1>3. (q + 1) * n = q * n + n /\ q * n \in Nat
  BY <1>1, <1>2, ProductsOfNats
<1>4. nextEpochBoundary(b) = Genesis + (q + 1) * n
  BY DEF nextEpochBoundary, q, n
<1>5. QED
  BY <1>1, <1>2, <1>3, <1>4

(* An attack that lands after b lands at the next boundary or later.       *)
LEMMA LandsOnABoundary ==
    ASSUME OneGrid, FairPlay, Booked(store), NEW l \in LobbyIds,
           NEW b \in Nat, b >= Genesis, attackOf(l).impactBlock > b
    PROVE  nextEpochBoundary(b) <= attackOf(l).impactBlock
<1> DEFINE n == store.params.epochBlocks
           e == lobbyOf(l).epochId
           impact == attackOf(l).impactBlock
           q == (b - Genesis) \div n
<1>1. n \in Nat \ {0} /\ Genesis \in Nat /\ b - Genesis \in Nat /\ store.params \in ParamSets
  BY StorageFields, ParamFields, NumbersAssumption DEF FairPlay, IInv
<1>2. e \in EpochIds /\ store.attacks[e].status # "NONE" /\ impact \in Nat
  BY WhatIsRead DEF attackOf
<1>3. e \in Nat
  BY <1>2, U32Assumption DEF EpochIds
<1>4. impact = Genesis + e * n + n
  <2>1. Flies(e, store.attacks[e]) /\ impact = store.attacks[e].impactBlock
    BY <1>2 DEF Booked, attackOf
  <2>2. PICK p \in ParamSets :
           /\ store.attacks[e].launchBlock = epochStart(e, p.epochBlocks, Genesis)
           /\ store.attacks[e].impactBlock = store.attacks[e].launchBlock + p.epochBlocks
    BY <2>1 DEF Flies
  <2>3. p.epochBlocks = n
    BY <1>1, <2>2 DEF OneGrid
  <2>4. QED
    BY <2>1, <2>2, <2>3 DEF epochStart
<1> HIDE DEF n, e, impact
<1>5. /\ q \in Nat /\ q * n <= b - Genesis
      /\ (e + 1) * n = e * n + n /\ (q + 1) * n = q * n + n
      /\ e * n \in Nat /\ q * n \in Nat
  BY <1>1, <1>3, DivFacts, ProductsOfNats
<1> HIDE DEF q
<1>6. q * n < (e + 1) * n
  BY <1>1, <1>2, <1>4, <1>5 DEF impact
<1>7. q + 1 <= e + 1
  BY <1>1, <1>3, <1>5, <1>6, ProductsOrder
<1>8. (q + 1) * n <= (e + 1) * n
  <2>1. CASE q = e
    BY <2>1, <1>1, <1>3, <1>5
  <2>2. CASE q # e
    <3>1. e - q \in Nat /\ (e - q) * n \in Nat /\ e * n = q * n + (e - q) * n
      BY <1>1, <1>3, <1>5, <1>7, <2>2, ProductsOfNats
    <3>2. QED
      BY <1>1, <1>5, <3>1
  <2>3. QED
    BY <2>1, <2>2
<1>9. nextEpochBoundary(b) = Genesis + (q + 1) * n
  BY DEF nextEpochBoundary, q, n
<1>10. QED
  BY <1>1, <1>4, <1>5, <1>8, <1>9 DEF impact

LEMMA WaitsStands ==
    ASSUME Onward, NEW l \in LobbyIds, NEW head, NEW at, Waits(head, l, at)
    PROVE  Waits(head, l, at)'
BY DEF Onward, Waits

(* A sweep that goes on, or does not move, stays punctual.                 *)
LEMMA PunctualStands ==
    ASSUME OneGrid, KInv, KInv', Onward, Punctual, UNCHANGED <<timer, wakes>>,
           jobs'["sweep"].lobby = jobs["sweep"].lobby,
           jobs'["sweep"].head = jobs["sweep"].head,
           jobs'["sweep"].last = jobs["sweep"].last,
           jobs'["sweep"].pc = "idle" <=> jobs["sweep"].pc = "idle"
    PROVE  Punctual'
<1> DEFINE sweep == jobs["sweep"]
           head == sweep.head
           last == sweep.last
<1>1. /\ JobOK("sweep", sweep) /\ head \in Nat /\ last \in Nat /\ sweep.lobby \in Nat
      /\ last <= Len(store.lobbies) /\ FairPlay /\ FairPlay'
  BY DEF KInv, JobOK, IsJob, Jobs
<1>2. /\ block \in Nat /\ block' \in Nat /\ block <= block' /\ timer \in Int
      /\ wakes \in Seq(Int) /\ Len(wakes) \in Nat
  BY <1>1, LenProperties DEF FairPlay, IInv, Onward, Punctual
<1>3. \A l \in 1 .. last : l \in LobbyIds
  BY <1>1, StorageFields DEF LobbyIds, FairPlay, IInv
<1>4. Awake'
  <2> SUFFICES ASSUME sweep.pc # "idle"
               PROVE  /\ Len(wakes) = IF sweep.lobby = 0 THEN last ELSE sweep.lobby - 1
                      /\ \A l \in 1 .. Len(wakes) : Waits(head, l, wakes[l])'
    BY DEF Awake, Waits
  <2>1. /\ Len(wakes) = IF sweep.lobby = 0 THEN last ELSE sweep.lobby - 1
        /\ \A l \in 1 .. Len(wakes) : Waits(head, l, wakes[l])
    BY DEF Punctual, Awake
  <2>2. sweep.lobby <= last
    BY <1>1 DEF JobOK
  <2>3. Len(wakes) <= last
    BY <1>1, <2>1, <2>2
  <2>4. \A l \in 1 .. Len(wakes) : l \in LobbyIds
    BY <1>1, <1>2, <1>3, <2>3
  <2>5. QED
    BY <2>1, <2>4, WaitsStands
<1>5. Asleep'
  <2> SUFFICES ASSUME sweep.pc = "idle", last > 0
               PROVE  /\ head >= Genesis
                      /\ timer - block' <= nextEpochBoundary(head)' - head
                      /\ \A l \in 1 .. last :
                            (/\ lobbyOf(l)'.status = "OPEN"
                             /\ lobbyOf(l)'.deadlineBlock > head) =>
                                 timer - lobbyOf(l)'.deadlineBlock <= block' - head
    BY DEF Asleep
  <2>1. /\ head >= Genesis
        /\ timer - block <= nextEpochBoundary(head) - head
        /\ \A l \in 1 .. last :
              lobbyOf(l).status = "OPEN" /\ lobbyOf(l).deadlineBlock > head =>
                  timer - lobbyOf(l).deadlineBlock <= block - head
    BY DEF Punctual, Asleep
  <2>2. nextEpochBoundary(head)' = nextEpochBoundary(head) /\ nextEpochBoundary(head) \in Nat
    BY <1>1, <2>1, BoundariesStand, BoundaryAhead
  <2>3. timer - block' <= nextEpochBoundary(head)' - head
    BY <1>1, <1>2, <2>1, <2>2
  <2>4. ASSUME NEW l \in 1 .. last,
               lobbyOf(l)'.status = "OPEN", lobbyOf(l)'.deadlineBlock > head
        PROVE  timer - lobbyOf(l)'.deadlineBlock <= block' - head
    <3>1. /\ l \in LobbyIds /\ lobbyOf(l).status = "OPEN"
          /\ lobbyOf(l)'.deadlineBlock = lobbyOf(l).deadlineBlock
      BY <1>3, <2>4 DEF Onward
    <3>2. lobbyOf(l).deadlineBlock \in Nat
      BY <1>1, <3>1, WhatIsRead
    <3>3. QED
      BY <1>1, <1>2, <2>1, <2>4, <3>1, <3>2
  <2>5. QED
    BY <2>1, <2>3, <2>4
<1>6. QED
  BY <1>2, <1>4, <1>5 DEF Punctual

LEMMA ComingBackPunctual ==
    ASSUME KInv, KInv', Onward, Punctual, ComesBack("sweep")
    PROVE  Punctual'
<1>0. PICK head, last, l0 : /\ head = jobs["sweep"].head /\ last = jobs["sweep"].last
                           /\ l0 = jobs["sweep"].lobby
  OBVIOUS
<1> DEFINE sweep == jobs["sweep"]
<1>1. PICK at \in Int : /\ Works(sweep) /\ Waits(head, l0, at)
                        /\ returns("sweep", sweep, at)
  BY <1>0 DEF ComesBack
<1>2. /\ JobOK("sweep", sweep) /\ head \in Nat /\ last \in Nat /\ l0 \in Nat
      /\ l0 # 0 /\ l0 <= last /\ last <= Len(store.lobbies) /\ l0 \in LobbyIds
      /\ sweep.pc # "idle" /\ FairPlay
  BY <1>0, <1>1 DEF KInv, JobOK, IsJob, Jobs, Works, LobbyIds
<1>3. PICK next :
         /\ jobs' = [jobs EXCEPT !["sweep"] = next]
         /\ next.pc # "idle" /\ next.head = head /\ next.last = last
         /\ wakes' = Append(wakes, at)
         /\ next.lobby = IF l0 < last THEN l0 + 1 ELSE 0
  BY <1>0, <1>1, Returned DEF Jobs
<1>4. jobs'["sweep"] = next /\ UNCHANGED timer
  BY <1>1, <1>3 DEF KInv, Jobs, returns
<1>5. /\ wakes \in Seq(Int) /\ Len(wakes) = l0 - 1
      /\ \A l \in 1 .. Len(wakes) : Waits(head, l, wakes[l])
  BY <1>0, <1>2 DEF Punctual, Awake
<1> HIDE DEF sweep
<1>6. /\ wakes' \in Seq(Int) /\ Len(wakes') = l0
      /\ \A l \in 1 .. l0 : IF l = l0 THEN wakes'[l] = at ELSE wakes'[l] = wakes[l]
  BY <1>2, <1>3, <1>5, AppendProperties
<1>7. ASSUME NEW l \in 1 .. l0
      PROVE  Waits(head, l, wakes[l])'
  <2>1. PICK w : w = wakes'[l]
    OBVIOUS
  <2>2. l \in LobbyIds
    BY <1>2, StorageFields DEF LobbyIds, FairPlay, IInv
  <2>3. Waits(head, l, w)
    <3>1. CASE l = l0
      BY <1>1, <1>6, <2>1, <3>1
    <3>2. CASE l # l0
      <4>1. l \in 1 .. Len(wakes) /\ w = wakes[l]
        BY <1>2, <1>5, <1>6, <2>1, <3>2
      <4>2. QED
        BY <1>5, <4>1
    <3>3. QED
      BY <3>1, <3>2
  <2>4. Waits(head, l, w)'
    BY <2>2, <2>3, WaitsStands
  <2>5. QED
    BY <2>1, <2>4 DEF Waits, lobbyOf
<1>8. Awake'
  <2>1. Len(wakes') = IF next.lobby = 0 THEN next.last ELSE next.lobby - 1
    BY <1>2, <1>3, <1>6
  <2>2. QED
    BY <1>3, <1>4, <1>6, <1>7, <2>1 DEF Awake, Waits, lobbyOf
<1>9. Asleep'
  BY <1>3, <1>4 DEF Asleep
<1>10. QED
  BY <1>4, <1>6, <1>8, <1>9 DEF Punctual

LEMMA FallingAsleepPunctual ==
    ASSUME OneGrid, KInv, KInv', Onward, Punctual, FallsAsleep("sweep")
    PROVE  Punctual'
<1>0. PICK head, last : head = jobs["sweep"].head /\ last = jobs["sweep"].last
  OBVIOUS
<1> DEFINE sweep == jobs["sweep"]
           all == {wakes[l] : l \in DOMAIN wakes} \cup {nextEpochBoundary(head)}
<1>1. /\ JobOK("sweep", sweep) /\ head \in Nat /\ last \in Nat /\ sweep.lobby = 0
      /\ last <= Len(store.lobbies) /\ sweep.pc # "idle" /\ FairPlay /\ FairPlay'
      /\ head >= Genesis
  BY <1>0 DEF KInv, JobOK, IsJob, Jobs, FallsAsleep, Opens
<1>2. /\ jobs'["sweep"].pc = "idle" /\ jobs'["sweep"].head = head
      /\ jobs'["sweep"].last = last /\ wakes' = wakes
      /\ timer' = block + nextDelay(all, head)
  BY <1>0 DEF KInv, Jobs, FallsAsleep, Idle, sleeps
<1>3. /\ wakes \in Seq(Int) /\ Len(wakes) = last
      /\ \A l \in 1 .. last : Waits(head, l, wakes[l])
  BY <1>0, <1>1 DEF Punctual, Awake
<1>4. /\ nextEpochBoundary(head) \in Nat /\ nextEpochBoundary(head) > head
      /\ nextEpochBoundary(head)' = nextEpochBoundary(head)
  BY <1>1, BoundaryAhead, BoundariesStand
<1>5. /\ block \in Nat /\ block' \in Nat /\ block <= block'
  BY <1>1 DEF FairPlay, IInv, Onward
<1> HIDE DEF sweep
<1>6. /\ all \in SUBSET Int /\ nextEpochBoundary(head) \in all
      /\ \A l \in 1 .. last : wakes[l] \in all
  <2>1. DOMAIN wakes = 1 .. last /\ \A l \in 1 .. last : wakes[l] \in Int
    BY <1>3, LenProperties, ElementOfSeq
  <2>2. QED
    BY <1>4, <2>1
<1> HIDE DEF all
<1>7. timer' \in Int /\ \A x \in all : x > head => timer' - block <= x - head
  <2>1. \A x \in all : x > head => nextDelay(all, head) \in Int /\ nextDelay(all, head) <= x - head
    BY <1>1, <1>6, SleepIsShort
  <2>2. nextDelay(all, head) \in Int
    BY <1>4, <1>6, <2>1
  <2> DEFINE d == nextDelay(all, head)
  <2>3. d \in Int /\ timer' = block + d /\ \A x \in all : x > head => d <= x - head
    BY <1>2, <2>1, <2>2
  <2> HIDE DEF d
  <2>4. \A x \in all : x \in Int
    BY <1>6
  <2>5. QED
    BY <1>1, <1>5, <2>3, <2>4
<1>8. timer' - block' <= nextEpochBoundary(head)' - head
  <2>1. timer' - block <= nextEpochBoundary(head) - head
    BY <1>4, <1>6, <1>7
  <2>2. QED
    BY <1>1, <1>4, <1>5, <1>7, <2>1
<1>9. ASSUME NEW l \in 1 .. last,
             lobbyOf(l)'.status = "OPEN", lobbyOf(l)'.deadlineBlock > head
      PROVE  timer' - lobbyOf(l)'.deadlineBlock <= block' - head
  <2>1. l \in LobbyIds
    BY <1>1, StorageFields DEF LobbyIds, FairPlay, IInv
  <2>2. /\ lobbyOf(l).status = "OPEN"
        /\ lobbyOf(l)'.deadlineBlock = lobbyOf(l).deadlineBlock
    BY <1>9, <2>1 DEF Onward
  <2>3. lobbyOf(l).deadlineBlock \in Nat
    BY <1>1, <2>1, WhatIsRead
  <2>4. wakes[l] = lobbyOf(l).deadlineBlock
    BY <1>3, <1>9, <2>2 DEF Waits
  <2>a. PICK d, t : d = lobbyOf(l).deadlineBlock /\ t = timer'
    OBVIOUS
  <2>5. d \in all /\ d > head /\ d \in Nat
    BY <1>6, <1>9, <2>2, <2>3, <2>4, <2>a
  <2>6. t \in Int /\ t - block <= d - head
    BY <1>7, <2>5, <2>a
  <2>7. t - d <= block' - head
    <3>1. PICK b, c : b = block /\ c = block'
      OBVIOUS
    <3>2. b \in Nat /\ c \in Nat /\ b <= c /\ t - b <= d - head
      BY <1>5, <2>6, <3>1
    <3>3. head \in Nat /\ d \in Nat /\ t \in Int
      BY <1>1, <2>5, <2>6
    <3>4. t - d <= c - head
      BY <3>2, <3>3
    <3>5. QED
      BY <3>1, <3>4
  <2>8. lobbyOf(l)'.deadlineBlock = d
    BY <2>2, <2>a
  <2>9. QED
    BY <2>7, <2>8, <2>a
<1>10. Asleep'
  BY <1>1, <1>2, <1>8, <1>9 DEF Asleep, nextEpochBoundary
<1>11. Awake'
  BY <1>2 DEF Awake
<1>12. QED
  BY <1>2, <1>3, <1>7, <1>10, <1>11 DEF Punctual

LEMMA StartingPunctual ==
    ASSUME KInv, Punctual, Wake \/ IsThrownAway("sweep")
    PROVE  Punctual'
<1>1. wakes' = <<>> /\ timer' \in Int
  <2>1. block \in Int /\ timer \in Int
    BY DEF KInv, FairPlay, IInv, Punctual
  <2>2. QED
    BY <2>1 DEF Wake, IsThrownAway
<1>2. wakes' \in Seq(Int) /\ Len(wakes') = 0
  BY <1>1
<1>3. CASE Wake
  <2>1. PICK next :
           /\ jobs' = [jobs EXCEPT !["sweep"] = next] /\ next.pc # "idle"
           /\ next.lobby = (IF LobbyIds = {} THEN 0 ELSE 1)
           /\ LobbyIds = {} => next.last = 0
    BY <1>3, Woken
  <2>2. jobs'["sweep"] = next
    BY <2>1 DEF KInv, Jobs
  <2>3. Len(wakes') = IF next.lobby = 0 THEN next.last ELSE next.lobby - 1
    BY <1>2, <2>1
  <2>4. Awake' /\ Asleep'
    BY <1>2, <2>1, <2>2, <2>3 DEF Awake, Asleep
  <2>5. QED
    BY <1>1, <1>2, <2>4 DEF Punctual
<1>4. CASE IsThrownAway("sweep")
  <2>1. jobs'["sweep"].pc = "idle" /\ jobs'["sweep"].last = 0
    BY <1>4 DEF IsThrownAway, KInv, Jobs, Idle
  <2>2. Awake' /\ Asleep'
    BY <2>1 DEF Awake, Asleep
  <2>3. QED
    BY <1>1, <1>2, <2>2 DEF Punctual
<1>5. QED
  BY <1>3, <1>4

LEMMA KeepsPunctual ==
    ASSUME OneGrid, KInv, Punctual, [KeeperNext]_keeperVars
    PROVE  Punctual'
<1>1. KInv' /\ Onward
  BY KeepsItsPlace
<1>2. CASE UNCHANGED <<jobs, timer, wakes>>
  BY <1>1, <1>2, PunctualStands
<1>3. CASE Wake
  BY <1>3, StartingPunctual
<1>4. CASE \E l \in LobbyIds : nudge(l)
  <2>1. jobs'["sweep"] = jobs["sweep"] /\ UNCHANGED <<timer, wakes>>
    BY <1>4 DEF nudge, KInv, Jobs
  <2>2. QED
    BY <1>1, <2>1, PunctualStands
<1>5. ASSUME NEW j \in Jobs, Stays(j) \/ ComesBack(j) \/ FallsAsleep(j) \/ IsThrownAway(j)
      PROVE  Punctual'
  <2>1. CASE j = "sweep"
    <3>1. CASE Stays(j)
      <4>1. PICK next :
               /\ jobs' = [jobs EXCEPT !["sweep"] = next] /\ UNCHANGED <<timer, wakes>>
               /\ jobs["sweep"].pc # "idle" /\ next.pc # "idle"
               /\ next.lobby = jobs["sweep"].lobby
               /\ next.head = jobs["sweep"].head /\ next.last = jobs["sweep"].last
        BY <2>1, <3>1 DEF Stays
      <4>2. jobs'["sweep"] = next
        BY <4>1 DEF KInv, Jobs
      <4>3. QED
        BY <1>1, <4>1, <4>2, PunctualStands
    <3>2. CASE ComesBack(j)
      BY <1>1, <2>1, <3>2, ComingBackPunctual
    <3>3. CASE FallsAsleep(j)
      BY <1>1, <2>1, <3>3, FallingAsleepPunctual
    <3>4. CASE IsThrownAway(j)
      BY <2>1, <3>4, StartingPunctual
    <3>5. QED
      BY <1>5, <3>1, <3>2, <3>3, <3>4
  <2>2. CASE j # "sweep"
    <3>1. j = "nudge"
      BY <2>2 DEF Jobs
    <3>2. jobs'["sweep"] = jobs["sweep"] /\ UNCHANGED <<timer, wakes>>
      <4>1. CASE Stays(j) \/ IsThrownAway(j)
        BY <3>1, <4>1 DEF Stays, IsThrownAway, KInv, Jobs
      <4>2. CASE ComesBack(j)
        BY <3>1, <4>2 DEF ComesBack, returns, KInv, Jobs
      <4>3. CASE FallsAsleep(j)
        BY <3>1, <4>3 DEF FallsAsleep, Opens
      <4>4. QED
        BY <1>5, <4>1, <4>2, <4>3
    <3>3. QED
      BY <1>1, <3>2, PunctualStands
  <2>3. QED
    BY <2>1, <2>2
<1>6. QED
  BY <1>2, <1>3, <1>4, <1>5, NextMoves

-----------------------------------------------------------------------------
LEMMA KeeperStarts ==
    ASSUME KeeperInit
    PROVE  KInv /\ Punctual
<1>1. FairPlay /\ block = Genesis /\ Genesis \in Nat
  BY InitFair, NumbersAssumption DEF KeeperInit, Init
<1>2. jobs = [j \in Jobs |-> Idle] /\ timer = Genesis /\ wakes = <<>>
  BY DEF KeeperInit
<1>3. \A j \in Jobs : JobOK(j, Idle)
  <2>1. 0 \in Nat /\ 0 <= block /\ 0 <= Len(store.lobbies)
    BY <1>1, StorageFields DEF FairPlay, IInv
  <2>2. QED
    BY <1>1, <2>1, IdleOK
<1>4. KInv
  BY <1>1, <1>2, <1>3 DEF KInv
<1>5. jobs["sweep"].pc = "idle" /\ jobs["sweep"].last = 0
  BY <1>2 DEF Jobs, Idle
<1>6. Punctual
  BY <1>1, <1>2, <1>5 DEF Punctual, Awake, Asleep
<1>7. QED
  BY <1>4, <1>6

(* keeper.service.ts, advance: at every await, a pass works on one          *)
(* operation that exists, past its first read only on one that has started *)
(* or whose applications had closed, and holds calls for that operation    *)
(* alone, the last of which ends the pass: the proofs they carry are of    *)
(* defenses that were sent, and no call of a round is held for an          *)
(* operation that has not started.                                         *)
THEOREM EveryPassKeepsItsPlace == KeeperSpec => []KInv
<1>1. KeeperInit => KInv
  BY KeeperStarts
<1>2. KInv /\ [KeeperNext]_keeperVars => KInv'
  BY KeepsItsPlace
<1>3. QED
  BY <1>1, <1>2, PTL DEF KeeperSpec

(* keeper.service.ts: the keeper, its nudges and the browsers beside it do  *)
(* nothing to the contract that its callers could not do, so all that is   *)
(* proved of the contract holds while they run.                            *)
THEOREM TheKeeperIsOneMoreCaller == KeeperSpec => Spec
<1>1. KeeperInit => Init
  BY DEF KeeperInit
<1>2. KInv /\ [KeeperNext]_keeperVars => [Next]_vars
  BY KeeperSide
<1>3. QED
  BY <1>1, <1>2, EveryPassKeepsItsPlace, PTL DEF KeeperSpec, Spec

(* keeper.service.ts, nextDelay: while the length of an epoch stands, the  *)
(* keeper that sleeps is up for every deadline ahead of its last sweep, as *)
(* many blocks late, at most, as that sweep lasted.                        *)
THEOREM TheKeeperWakesInTime ==
    ASSUME OneGrid
    PROVE  KeeperSpec => []WakesForEveryDeadline
<1>1. KeeperInit => KInv /\ Punctual
  BY KeeperStarts
<1>2. KInv /\ Punctual /\ [KeeperNext]_keeperVars => (KInv /\ Punctual)'
  BY KeepsItsPlace, KeepsPunctual
<1>3. KeeperSpec => [](KInv /\ Punctual)
  BY <1>1, <1>2, PTL DEF KeeperSpec
<1>4. ASSUME KInv, Punctual, FairPlay, Booked(store)
      PROVE  WakesForEveryDeadline
  <2> DEFINE sweep == jobs["sweep"]
             head == sweep.head
             last == sweep.last
  <2> SUFFICES ASSUME sweep.pc = "idle", NEW l \in 1 .. last,
                      deadlineOf(l) > head
               PROVE  timer - deadlineOf(l) <= block - head
    BY DEF WakesForEveryDeadline
  <2>1. /\ head \in Nat /\ last \in Nat /\ last <= Len(store.lobbies) /\ last > 0
    BY <1>4 DEF KInv, JobOK, IsJob, Jobs
  <2>2. /\ head >= Genesis /\ timer \in Int /\ block \in Nat
        /\ timer - block <= nextEpochBoundary(head) - head
        /\ lobbyOf(l).status = "OPEN" /\ lobbyOf(l).deadlineBlock > head =>
              timer - lobbyOf(l).deadlineBlock <= block - head
    BY <1>4, <2>1 DEF Punctual, Asleep, FairPlay, IInv
  <2>3. l \in LobbyIds
    BY <1>4, <2>1, StorageFields DEF LobbyIds, FairPlay, IInv
  <2>4. CASE lobbyOf(l).status = "OPEN"
    BY <2>2, <2>4 DEF deadlineOf
  <2>5. CASE lobbyOf(l).status # "OPEN"
    <3>1. deadlineOf(l) = attackOf(l).impactBlock
      BY <2>5 DEF deadlineOf
    <3>2. /\ attackOf(l).impactBlock \in Nat /\ nextEpochBoundary(head) \in Nat
          /\ nextEpochBoundary(head) <= attackOf(l).impactBlock
      BY <1>4, <2>1, <2>2, <2>3, <3>1, WhatIsRead, BoundaryAhead, LandsOnABoundary
    <3>3. QED
      BY <2>1, <2>2, <3>1, <3>2
  <2>6. QED
    BY <2>4, <2>5
<1>5. QED
  BY <1>3, <1>4, EveryDrawIsBookedOnce, TheKeeperIsOneMoreCaller, PTL
=============================================================================
