---------------------------- MODULE IndexerProofs ---------------------------
(***************************************************************************)
(* Theorems about the indexer, for any log, any window, any number of      *)
(* confirmations and any incidents: what it holds is the chain, replayed.  *)
(***************************************************************************)
EXTENDS IndexerProps, AegylaxProofs

-----------------------------------------------------------------------------
(* The fold.  The library folds a sequence by a recursive function over    *)
(* the subsets of its positions, the last position of a subset being       *)
(* applied last.                                                           *)

IsFolding(h, from, s, D) ==
    h = [U \in SUBSET D |->
            IF U = {} THEN from ELSE apply(h[U \ {Max(U)}], s[Max(U)])]

LEMMA GreatestNumber ==
    ASSUME NEW n \in Nat, NEW U \in SUBSET (1 .. n), U # {}
    PROVE  Max(U) \in U /\ \A x \in U : Max(U) >= x
<1> DEFINE gaps == {n - u : u \in U}
<1>1. gaps \in SUBSET Nat /\ gaps # {}
  <2>1. \A u \in U : n - u \in Nat
    OBVIOUS
  <2>2. QED
    BY <2>1
<1> HIDE DEF gaps
<1>2. Min(gaps) \in gaps /\ \A g \in gaps : Min(gaps) <= g
  BY <1>1, LeastNumber
<1>3. PICK u \in U : Min(gaps) = n - u
  BY <1>2 DEF gaps
<1>4. \A x \in U : n - u <= n - x
  BY <1>2, <1>3 DEF gaps
<1>5. \A x \in U : u >= x
  BY <1>4
<1>6. QED
  BY <1>5 DEF Max

(* h folds t over E, and g folds s, which is t as far as D, over less.      *)
Shorter(g, s, D, h, t, E, from, n) ==
    /\ n \in Nat /\ E \subseteq 1 .. n /\ D \subseteq E
    /\ \A i \in D : s[i] = t[i]
    /\ IsFolding(g, from, s, D) /\ IsFolding(h, from, t, E)

LEMMA FoldingsAgree ==
    ASSUME NEW g, NEW s, NEW D, NEW h, NEW t, NEW E, NEW from, NEW n,
           Shorter(g, s, D, h, t, E, from, n)
    PROVE  g[D] = h[D]
<1> USE DEF Shorter
<1> SUFFICES \A U \in SUBSET D : g[U] = h[U]
  OBVIOUS
<1> DEFINE Bad == {U \in SUBSET D : g[U] # h[U]}
<1> SUFFICES ASSUME Bad # {} PROVE FALSE
  OBVIOUS
<1>1. IsFiniteSet(1 .. n) /\ Bad \in SUBSET SUBSET (1 .. n)
  <2>1. IsFiniteSet(1 .. n)
    BY FS_Interval
  <2>2. QED
    BY <2>1
<1>2. PICK T \in Bad : \A W \in SUBSET T : W # T => W \notin Bad
  <2> HIDE DEF Bad
  <2>1. PICK all : all = 1 .. n
    OBVIOUS
  <2>2. IsFiniteSet(all) /\ Bad \in SUBSET SUBSET all
    BY <1>1, <2>1
  <2>3. QED
    BY <2>2, SmallestBadSet, Zenon
<1>3. T \in SUBSET D /\ T \in SUBSET E /\ g[T] # h[T] /\ T \in SUBSET (1 .. n)
  BY <1>2
<1>4. T # {}
  BY <1>3 DEF IsFolding
<1>5. Max(T) \in T
  BY <1>3, <1>4, GreatestNumber
<1> DEFINE R == T \ {Max(T)}
<1>6. R \in SUBSET T /\ R # T
  BY <1>5
<1>7. g[R] = h[R]
  BY <1>2, <1>3, <1>6
<1>8. g[T] = apply(g[R], s[Max(T)])
  BY <1>3, <1>4 DEF IsFolding
<1>9. h[T] = apply(h[R], t[Max(T)])
  BY <1>3, <1>4 DEF IsFolding
<1>10. s[Max(T)] = t[Max(T)]
  BY <1>3, <1>5
<1>11. QED
  BY <1>3, <1>7, <1>8, <1>9, <1>10

LEMMA FoldingExists ==
    ASSUME NEW n \in Nat, NEW from, NEW s
    PROVE  \E h : IsFolding(h, from, s, 1 .. n)
<1> DEFINE Bad == {U \in SUBSET (1 .. n) : ~\E h : IsFolding(h, from, s, U)}
<1> SUFFICES ASSUME Bad # {} PROVE FALSE
  OBVIOUS
<1>1. IsFiniteSet(1 .. n) /\ Bad \in SUBSET SUBSET (1 .. n)
  <2>1. IsFiniteSet(1 .. n)
    BY FS_Interval
  <2>2. QED
    BY <2>1
<1>2. PICK T \in Bad : \A U \in SUBSET T : U # T => U \notin Bad
  <2> HIDE DEF Bad
  <2>1. PICK all : all = 1 .. n
    OBVIOUS
  <2>2. IsFiniteSet(all) /\ Bad \in SUBSET SUBSET all
    BY <1>1, <2>1
  <2>3. QED
    BY <2>2, SmallestBadSet, Zenon
<1>3. T \in SUBSET (1 .. n) /\ ~\E h : IsFolding(h, from, s, T)
  BY <1>2
<1> DEFINE folding(U) == CHOOSE h : IsFolding(h, from, s, U)
<1>4. ASSUME NEW U \in SUBSET T, U # T
      PROVE  IsFolding(folding(U), from, s, U)
  <2>1. \E h : IsFolding(h, from, s, U)
    BY <1>2, <1>3, <1>4
  <2>2. QED
    BY <2>1
<1> DEFINE a == Max(T)
           h == [U \in SUBSET T |->
                    IF U = {} THEN from
                    ELSE IF U = T THEN apply(folding(T \ {a})[T \ {a}], s[a])
                    ELSE folding(U)[U]]
<1> HIDE DEF folding, Bad
<1>5. ASSUME NEW U \in SUBSET T, U # {}
      PROVE  h[U] = apply(h[U \ {Max(U)}], s[Max(U)])
  <2> DEFINE b == Max(U)
             r == U \ {b}
  <2>1. b \in U
    BY <1>3, <1>5, GreatestNumber
  <2>2. r \in SUBSET T /\ r # T /\ r # U
    BY <2>1
  <2>3. h[r] = folding(r)[r]
    <3>1. CASE r = {}
      <4>1. IsFolding(folding({}), from, s, {})
        BY <1>4, <2>2, <3>1
      <4>2. folding({})[{}] = from
        BY <4>1 DEF IsFolding
      <4>3. QED
        BY <2>2, <3>1, <4>2
    <3>2. CASE r # {}
      BY <2>2, <3>2
    <3>3. QED
      BY <3>1, <3>2
  <2>4. CASE U = T
    BY <1>5, <2>3, <2>4
  <2>5. CASE U # T
    <3>1. IsFolding(folding(U), from, s, U) /\ IsFolding(folding(r), from, s, r)
      BY <1>4, <2>2, <2>5
    <3>2. folding(U)[U] = apply(folding(U)[r], s[b])
      BY <1>5, <2>1, <3>1 DEF IsFolding
    <3>3. folding(U)[r] = folding(r)[r]
      <4>1. U \subseteq 1 .. n /\ r \subseteq U
        BY <1>3
      <4>2. Shorter(folding(r), s, r, folding(U), s, U, from, n)
        BY <3>1, <4>1 DEF Shorter
      <4>3. QED
        BY <4>2, FoldingsAgree
    <3>4. h[U] = folding(U)[U]
      BY <1>5, <2>5
    <3>5. QED
      BY <2>3, <3>2, <3>3, <3>4
  <2>6. QED
    BY <2>4, <2>5
<1>6. h[{}] = from
  OBVIOUS
<1>7. h = [U \in SUBSET T |->
              IF U = {} THEN from ELSE apply(h[U \ {Max(U)}], s[Max(U)])]
  <2> DEFINE k == [U \in SUBSET T |->
                      IF U = {} THEN from ELSE apply(h[U \ {Max(U)}], s[Max(U)])]
  <2>1. \A U \in SUBSET T : h[U] = k[U]
    BY <1>5, <1>6
  <2>2. h = [U \in SUBSET T |-> h[U]] /\ k = [U \in SUBSET T |-> k[U]]
    OBVIOUS
  <2> HIDE DEF h, k
  <2>3. h = k
    BY <2>1, <2>2
  <2>4. QED
    BY <2>3 DEF k
<1> HIDE DEF h
<1>8. IsFolding(h, from, s, T)
  BY <1>7 DEF IsFolding
<1>9. QED
  BY <1>3, <1>8

LEMMA FoldDef ==
    ASSUME NEW from, NEW s
    PROVE  foldedWith(from, s) = (CHOOSE h : IsFolding(h, from, s, DOMAIN s))[DOMAIN s]
BY DEF foldedWith, FoldLeft, MapThenFoldSet, IsFolding

LEMMA FoldIsFolding ==
    ASSUME NEW n \in Nat, NEW from, NEW s, DOMAIN s = 1 .. n,
           NEW h, IsFolding(h, from, s, 1 .. n)
    PROVE  foldedWith(from, s) = h[1 .. n]
<1> DEFINE g == CHOOSE k : IsFolding(k, from, s, 1 .. n)
<1>1. IsFolding(g, from, s, 1 .. n)
  BY FoldingExists
<1>2. foldedWith(from, s) = g[1 .. n]
  BY FoldDef
<1> HIDE DEF g
<1>3. Shorter(g, s, 1 .. n, h, s, 1 .. n, from, n)
  BY <1>1 DEF Shorter
<1>4. QED
  BY <1>2, <1>3, FoldingsAgree

LEMMA FoldOfNone ==
    ASSUME NEW from
    PROVE  foldedWith(from, <<>>) = from
<1>1. PICK h : IsFolding(h, from, <<>>, 1 .. 0)
  BY FoldingExists
<1>2. DOMAIN <<>> = 1 .. 0 /\ 0 \in Nat
  BY EmptySeq, LenProperties
<1>3. foldedWith(from, <<>>) = h[1 .. 0]
  BY <1>1, <1>2, FoldIsFolding
<1>4. 1 .. 0 = {} /\ h[{}] = from
  BY <1>1 DEF IsFolding
<1>5. QED
  BY <1>3, <1>4

LEMMA FoldOfAppend ==
    ASSUME NEW S, NEW s \in Seq(S), NEW e \in S, NEW from
    PROVE  foldedWith(from, Append(s, e)) = apply(foldedWith(from, s), e)
<1>1. PICK n, m, t : n = Len(s) /\ m = Len(s) + 1 /\ t = Append(s, e)
  OBVIOUS
<1>2. /\ n \in Nat /\ m \in Nat /\ m = n + 1
      /\ DOMAIN s = 1 .. n /\ DOMAIN t = 1 .. m
      /\ t[m] = e /\ \A i \in 1 .. n : t[i] = s[i]
  BY <1>1, AppendProperties, LenProperties
<1>3. PICK g : IsFolding(g, from, s, 1 .. n)
  BY <1>2, FoldingExists
<1>4. PICK h : IsFolding(h, from, t, 1 .. m)
  BY <1>2, FoldingExists
<1>5. foldedWith(from, s) = g[1 .. n]
  BY <1>2, <1>3, FoldIsFolding
<1>6. foldedWith(from, t) = h[1 .. m]
  BY <1>2, <1>4, FoldIsFolding
<1>7. Max(1 .. m) = m
  <2>1. 1 .. m # {} /\ m \in 1 .. m
    <3>1. m \in 1 .. m
      BY <1>2
    <3>2. QED
      BY <3>1
  <2>2. Max(1 .. m) \in 1 .. m /\ \A x \in 1 .. m : Max(1 .. m) >= x
    <3>1. PICK E : E = 1 .. m
      OBVIOUS
    <3>2. E \in SUBSET (1 .. m) /\ E # {}
      BY <2>1, <3>1
    <3>3. Max(E) \in E /\ \A x \in E : Max(E) >= x
      BY <1>2, <3>2, GreatestNumber, Zenon
    <3>4. QED
      BY <3>1, <3>3
  <2>3. QED
    BY <1>2, <2>1, <2>2
<1>8. (1 .. m) \ {m} = 1 .. n /\ 1 .. m # {} /\ 1 .. n \in SUBSET (1 .. m)
  BY <1>2
<1>9. h[1 .. m] = apply(h[1 .. n], t[m])
  <2>1. h[1 .. m] = apply(h[(1 .. m) \ {Max(1 .. m)}], t[Max(1 .. m)])
    BY <1>4, <1>8 DEF IsFolding
  <2>2. QED
    BY <1>7, <1>8, <2>1
<1>10. g[1 .. n] = h[1 .. n]
  <2>1. Shorter(g, s, 1 .. n, h, t, 1 .. m, from, m)
    BY <1>2, <1>3, <1>4 DEF Shorter
  <2>2. QED
    BY <2>1, FoldingsAgree
<1>11. QED
  BY <1>1, <1>2, <1>5, <1>6, <1>9, <1>10

LEMMA PrefixGrows ==
    ASSUME NEW S, NEW t \in Seq(S), NEW k \in Nat, k < Len(t)
    PROVE  /\ SubSeq(t, 1, k) \in Seq(S) /\ t[k + 1] \in S
           /\ SubSeq(t, 1, k + 1) = Append(SubSeq(t, 1, k), t[k + 1])
<1>1. /\ SubSeq(t, 1, k) \in Seq(S) /\ Len(SubSeq(t, 1, k)) = k
      /\ \A i \in 1 .. k : SubSeq(t, 1, k)[i] = t[i]
  BY SubSeqProperties
<1>2. /\ SubSeq(t, 1, k + 1) \in Seq(S) /\ Len(SubSeq(t, 1, k + 1)) = k + 1
      /\ \A i \in 1 .. k + 1 : SubSeq(t, 1, k + 1)[i] = t[i]
  BY SubSeqProperties
<1>3. t[k + 1] \in S
  BY ElementOfSeq
<1>4. PICK u, v, w : /\ u = SubSeq(t, 1, k) /\ v = SubSeq(t, 1, k + 1)
                     /\ w = Append(u, t[k + 1])
  OBVIOUS
<1>5. /\ w \in Seq(S) /\ Len(w) = k + 1 /\ w[k + 1] = t[k + 1]
      /\ \A i \in 1 .. k : w[i] = t[i]
  BY <1>1, <1>3, <1>4, AppendProperties
<1>6. \A i \in 1 .. k + 1 : w[i] = v[i]
  BY <1>2, <1>4, <1>5
<1>7. v = w
  BY <1>2, <1>4, <1>5, <1>6, SeqEqual
<1>8. QED
  BY <1>1, <1>3, <1>4, <1>7

LEMMA WholePrefix ==
    ASSUME NEW S, NEW t \in Seq(S)
    PROVE  SubSeq(t, 1, Len(t)) = t /\ SubSeq(t, 1, 0) = <<>>
BY SubSeqProperties, SeqEqual, LenProperties

(* Folding two stretches one after the other folds them joined.            *)
LEMMA FoldOfJoin ==
    ASSUME NEW S, NEW s \in Seq(S), NEW t \in Seq(S), NEW from
    PROVE  foldedWith(from, s \o t) = foldedWith(foldedWith(from, s), t)
<1> DEFINE part(k) == SubSeq(t, 1, k)
           Joined2(k) == foldedWith(from, s \o part(k)) = foldedWith(foldedWith(from, s), part(k))
           Bad == {k \in 0 .. Len(t) : ~Joined2(k)}
<1>1. Len(t) \in Nat /\ Bad \in SUBSET Nat
  BY LenProperties
<1>2. Joined2(0)
  BY WholePrefix, ConcatEmptySeq, FoldOfNone
<1>3. ASSUME NEW k \in Nat, k < Len(t), Joined2(k)
      PROVE  Joined2(k + 1)
  <2>1. part(k) \in Seq(S) /\ t[k + 1] \in S /\ part(k + 1) = Append(part(k), t[k + 1])
    BY <1>3, PrefixGrows
  <2> HIDE DEF part
  <2>2. s \o part(k) \in Seq(S)
    BY <2>1, ConcatProperties
  <2>3. s \o Append(part(k), t[k + 1]) = Append(s \o part(k), t[k + 1])
    BY <2>1, <2>2
  <2>4. foldedWith(from, s \o part(k + 1)) = apply(foldedWith(from, s \o part(k)), t[k + 1])
    BY <2>1, <2>2, <2>3, FoldOfAppend
  <2>5. foldedWith(foldedWith(from, s), part(k + 1))
            = apply(foldedWith(foldedWith(from, s), part(k)), t[k + 1])
    BY <2>1, FoldOfAppend
  <2>6. QED
    BY <1>3, <2>4, <2>5
<1> HIDE DEF part
<1>4. Bad = {}
  <2> SUFFICES ASSUME Bad # {} PROVE FALSE
    OBVIOUS
  <2>1. Min(Bad) \in Bad /\ \A x \in Bad : Min(Bad) <= x
    <3> HIDE DEF Bad
    <3> QED BY <1>1, LeastNumber
  <2>2. PICK k : k = Min(Bad) - 1
    OBVIOUS
  <2>3. k + 1 \in Bad /\ k \in Nat /\ k < Len(t) /\ k \notin Bad
    <3> HIDE DEF Joined2
    <3>1. Min(Bad) \in 0 .. Len(t) /\ Min(Bad) # 0
      BY <1>2, <2>1
    <3>2. \A x \in Bad : Min(Bad) <= x
      BY <2>1
    <3> HIDE DEF Bad
    <3>3. QED
      BY <1>1, <2>1, <2>2, <3>1, <3>2
  <2>4. k \in Nat /\ Joined2(k)
    <3>1. k \in 0 .. Len(t)
      BY <1>1, <2>3
    <3>2. QED
      BY <2>3, <3>1
  <2>5. QED
    BY <1>3, <2>3, <2>4
<1>5. Joined2(Len(t))
  BY <1>1, <1>4
<1>6. QED
  BY <1>5, WholePrefix DEF part

-----------------------------------------------------------------------------
(* What is held: rows whose fields are known, for the operations known.    *)

IsRow(r) ==
    r = [ creator |-> r.creator, participants |-> r.participants, members |-> r.members,
          maxPlayers |-> r.maxPlayers, rewardPool |-> r.rewardPool,
          drawBounty |-> r.drawBounty, status |-> r.status, intercepted |-> r.intercepted,
          createdBlock |-> r.createdBlock, startedBlock |-> r.startedBlock,
          endedBlock |-> r.endedBlock ]

IsDirectory(d) ==
    /\ d = [lobbies |-> d.lobbies, byPlayer |-> d.byPlayer]
    /\ d.lobbies = [l \in known(d) |-> row(d, l)]
    /\ d.byPlayer = [w \in Addresses |-> d.byPlayer[w]]
    /\ \A l \in known(d) : IsRow(row(d, l))

IsMemory(m) ==
    m = [ledger |-> m.ledger, directory |-> m.directory] /\ IsDirectory(m.directory)

(* Two rows that differ in nothing the log says.                           *)
SameRow(r, q) ==
    /\ r.creator = q.creator /\ r.participants = q.participants /\ r.members = q.members
    /\ r.status = q.status /\ r.intercepted = q.intercepted
    /\ r.createdBlock = q.createdBlock /\ r.startedBlock = q.startedBlock
    /\ r.endedBlock = q.endedBlock
    /\ r.drawBounty # Unread <=> q.drawBounty # Unread

Alike(m, n) ==
    /\ m.ledger = n.ledger
    /\ asLogged(m.directory) = asLogged(n.directory)
    /\ m.directory.byPlayer = n.directory.byPlayer

LEMMA LoggedAlike ==
    ASSUME NEW d, NEW e
    PROVE  asLogged(d) = asLogged(e) <=>
              known(d) = known(e) /\ \A l \in known(d) : SameRow(row(d, l), row(e, l))
<1> DEFINE said(r) == [ creator |-> r.creator, members |-> r.members,
             participants |-> r.participants, drawn |-> (r.drawBounty # Unread),
             status |-> r.status, intercepted |-> r.intercepted,
             createdBlock |-> r.createdBlock, startedBlock |-> r.startedBlock,
             endedBlock |-> r.endedBlock ]
<1>1. \A r, q : said(r) = said(q) <=> SameRow(r, q)
  BY DEF SameRow
<1>2. /\ asLogged(d) = [l \in known(d) |-> said(row(d, l))]
      /\ asLogged(e) = [l \in known(e) |-> said(row(e, l))]
  BY DEF asLogged
<1> HIDE DEF said
<1>4. asLogged(d) = asLogged(e) <=>
         known(d) = known(e) /\ \A l \in known(d) : said(row(d, l)) = said(row(e, l))
  <2>1. ASSUME asLogged(d) = asLogged(e)
        PROVE  known(d) = known(e) /\ \A l \in known(d) : said(row(d, l)) = said(row(e, l))
    <3>1. DOMAIN asLogged(d) = known(d) /\ DOMAIN asLogged(e) = known(e)
      BY <1>2
    <3>2. known(d) = known(e)
      BY <2>1, <3>1
    <3>3. \A l \in known(d) : asLogged(d)[l] = said(row(d, l)) /\ asLogged(e)[l] = said(row(e, l))
      BY <1>2, <3>2
    <3>4. QED
      BY <2>1, <3>2, <3>3
  <2>2. ASSUME known(d) = known(e), \A l \in known(d) : said(row(d, l)) = said(row(e, l))
        PROVE  asLogged(d) = asLogged(e)
    BY <1>2, <2>2
  <2>3. QED
    BY <2>1, <2>2
<1>5. QED
  BY <1>1, <1>4

LEMMA RowKept ==
    ASSUME NEW r, NEW q, NEW e, IsRow(r), IsRow(q), SameRow(r, q)
    PROVE  IsRow(applyToRow(r, e)) /\ SameRow(applyToRow(r, e), applyToRow(q, e))
<1>1. CASE e.name = "GlobalDefenseOpened"
  BY <1>1 DEF IsRow, SameRow, applyToRow
<1>2. CASE e.name = "PlayerJoined"
  BY <1>2 DEF IsRow, SameRow, applyToRow
<1>3. CASE e.name = "PlayerLeft"
  BY <1>3 DEF IsRow, SameRow, applyToRow
<1>4. CASE e.name = "OperationStarted"
  BY <1>4 DEF IsRow, SameRow, applyToRow
<1>5. CASE e.name = "WinnerDetermined"
  BY <1>5 DEF IsRow, SameRow, applyToRow, finished
<1>6. CASE e.name \in {"LobbyCancelled", "AttackExpired"}
  BY <1>6 DEF IsRow, SameRow, applyToRow
<1>7. CASE e.name \notin {"GlobalDefenseOpened", "PlayerJoined", "PlayerLeft", "OperationStarted",
                          "WinnerDetermined", "LobbyCancelled", "AttackExpired"}
  <2>1. applyToRow(r, e) = r /\ applyToRow(q, e) = q
    BY <1>7 DEF applyToRow
  <2>2. QED
    BY <2>1
<1>8. QED
  BY <1>1, <1>2, <1>3, <1>4, <1>5, <1>6, <1>7

LEMMA NewRowIsRow ==
    ASSUME NEW e
    PROVE  IsRow(newRow(e)) /\ SameRow(newRow(e), newRow(e))
BY DEF newRow, IsRow, SameRow

(* What an event makes of a directory.                                     *)
LEMMA DirectoryStep ==
    ASSUME NEW d, NEW e, IsDirectory(d)
    PROVE  LET next == applyToDirectory(d, e)
               opens == e.name = "LobbyCreated" IN
           /\ IsDirectory(next)
           /\ known(next) = IF opens THEN known(d) \cup {e.lobby} ELSE known(d)
           /\ \A l \in known(next) :
                 row(next, l) = IF opens /\ l = e.lobby THEN newRow(e)
                                ELSE IF l = e.lobby THEN applyToRow(row(d, l), e)
                                ELSE row(d, l)
           /\ next.byPlayer = IF opens \/ (e.name = "PlayerJoined" /\ e.lobby \in known(d))
                              THEN linked(d, e) ELSE d.byPlayer
<1> DEFINE next == applyToDirectory(d, e)
           l == e.lobby
<1>1. /\ d = [lobbies |-> d.lobbies, byPlayer |-> d.byPlayer]
      /\ d.lobbies = [k \in known(d) |-> row(d, k)]
      /\ d.byPlayer = [w \in Addresses |-> d.byPlayer[w]]
      /\ \A k \in known(d) : IsRow(row(d, k))
  BY DEF IsDirectory
<1>2. next = IF e.name = "LobbyCreated"
             THEN [lobbies |-> opened(d, e), byPlayer |-> linked(d, e)]
             ELSE IF l \notin known(d) THEN d
             ELSE [ lobbies  |-> updated(d, e),
                    byPlayer |-> IF e.name = "PlayerJoined" THEN linked(d, e) ELSE d.byPlayer ]
  BY DEF applyToDirectory
<1> HIDE DEF next
<1>3. CASE e.name = "LobbyCreated"
  <2>1. next = [lobbies |-> opened(d, e), byPlayer |-> linked(d, e)]
    BY <1>2, <1>3
  <2>2. /\ known(next) = known(d) \cup {l}
        /\ \A k \in known(next) : row(next, k) = IF k = l THEN newRow(e) ELSE row(d, k)
    BY <2>1 DEF known, row, opened
  <2>3. IsDirectory(next)
    <3>1. \A k \in known(next) : IsRow(row(next, k))
      BY <1>1, <2>2, NewRowIsRow
    <3>2. next.lobbies = [k \in known(next) |-> row(next, k)]
      BY <2>1 DEF known, row, opened
    <3>3. next.byPlayer = [w \in Addresses |-> next.byPlayer[w]]
      BY <2>1 DEF linked
    <3>4. QED
      BY <2>1, <3>1, <3>2, <3>3 DEF IsDirectory
  <2>4. QED
    BY <1>3, <2>1, <2>2, <2>3 DEF next
<1>4. CASE e.name # "LobbyCreated" /\ l \notin known(d)
  <2>1. next = d
    BY <1>2, <1>4
  <2>2. QED
    BY <1>4, <2>1 DEF next
<1>5. CASE e.name # "LobbyCreated" /\ l \in known(d)
  <2> DEFINE rows == [k \in known(d) |-> IF k = l THEN applyToRow(row(d, k), e) ELSE row(d, k)]
  <2>1. updated(d, e) = rows
    BY <1>1, <1>5 DEF row, updated
  <2> HIDE DEF rows
  <2>2. next = [ lobbies |-> rows,
                 byPlayer |-> IF e.name = "PlayerJoined" THEN linked(d, e) ELSE d.byPlayer ]
    BY <1>1, <1>2, <1>5, <2>1
  <2>3. /\ known(next) = known(d)
        /\ \A k \in known(d) :
              row(next, k) = IF k = l THEN applyToRow(row(d, k), e) ELSE row(d, k)
    BY <2>2 DEF known, row, rows
  <2>4. IsDirectory(next)
    <3>1. \A k \in known(next) : IsRow(row(next, k))
      <4>1. \A r : IsRow(r) => SameRow(r, r)
        BY DEF SameRow
      <4>2. QED
        BY <1>1, <2>3, <4>1, RowKept
    <3>2. next.lobbies = [k \in known(next) |-> row(next, k)]
      BY <2>2 DEF known, row, rows
    <3>3. next.byPlayer = [w \in Addresses |-> next.byPlayer[w]]
      BY <1>1, <2>2 DEF linked
    <3>4. QED
      BY <2>2, <3>1, <3>2, <3>3 DEF IsDirectory
  <2>5. QED
    BY <1>5, <2>2, <2>3, <2>4 DEF next
<1>6. QED
  BY <1>3, <1>4, <1>5

LEMMA ApplyKept ==
    ASSUME NEW m, NEW e, IsMemory(m)
    PROVE  IsMemory(apply(m, e))
BY DirectoryStep DEF IsMemory, apply

LEMMA ApplyAlike ==
    ASSUME NEW m, NEW n, NEW e, IsMemory(m), IsMemory(n), Alike(m, n)
    PROVE  Alike(apply(m, e), apply(n, e))
<1> DEFINE c == m.directory
           d == n.directory
           c2 == applyToDirectory(c, e)
           d2 == applyToDirectory(d, e)
<1>1. /\ IsDirectory(c) /\ IsDirectory(d) /\ c.byPlayer = d.byPlayer /\ known(c) = known(d)
      /\ \A l \in known(c) : SameRow(row(c, l), row(d, l))
      /\ \A l \in known(c) : IsRow(row(c, l)) /\ IsRow(row(d, l))
  BY LoggedAlike DEF Alike, IsMemory, IsDirectory
<1> HIDE DEF c, d
<1>2. linked(c, e) = linked(d, e)
  BY <1>1 DEF linked
<1>3. c2.byPlayer = d2.byPlayer /\ known(c2) = known(d2)
  <2> DEFINE opens == e.name = "LobbyCreated"
  <2>1. /\ known(c2) = IF opens THEN known(c) \cup {e.lobby} ELSE known(c)
        /\ c2.byPlayer = IF opens \/ (e.name = "PlayerJoined" /\ e.lobby \in known(c))
                         THEN linked(c, e) ELSE c.byPlayer
    BY <1>1, DirectoryStep
  <2>2. /\ known(d2) = IF opens THEN known(d) \cup {e.lobby} ELSE known(d)
        /\ d2.byPlayer = IF opens \/ (e.name = "PlayerJoined" /\ e.lobby \in known(d))
                         THEN linked(d, e) ELSE d.byPlayer
    BY <1>1, DirectoryStep
  <2> HIDE DEF c2, d2, opens
  <2>3. QED
    BY <1>1, <1>2, <2>1, <2>2
<1>4. ASSUME NEW l \in known(c2)
      PROVE  SameRow(row(c2, l), row(d2, l))
  <2> DEFINE opens == e.name = "LobbyCreated"
  <2>1. /\ row(c2, l) = IF opens /\ l = e.lobby THEN newRow(e)
                        ELSE IF l = e.lobby THEN applyToRow(row(c, l), e) ELSE row(c, l)
        /\ row(d2, l) = IF opens /\ l = e.lobby THEN newRow(e)
                        ELSE IF l = e.lobby THEN applyToRow(row(d, l), e) ELSE row(d, l)
        /\ l \in known(c) \/ (opens /\ l = e.lobby)
    BY <1>1, <1>3, <1>4, DirectoryStep
  <2> HIDE DEF c2, d2
  <2>2. CASE opens /\ l = e.lobby
    BY <2>1, <2>2, NewRowIsRow
  <2>3. CASE ~(opens /\ l = e.lobby) /\ l = e.lobby
    BY <1>1, <2>1, <2>3, RowKept
  <2>4. CASE l # e.lobby
    BY <1>1, <2>1, <2>4
  <2>5. QED
    BY <2>2, <2>3, <2>4
<1>5. asLogged(c2) = asLogged(d2)
  BY <1>3, <1>4, LoggedAlike
<1>6. /\ apply(m, e).directory = c2 /\ apply(n, e).directory = d2
      /\ apply(m, e).ledger = apply(n, e).ledger
  BY DEF apply, Alike, c, d
<1>7. QED
  BY <1>3, <1>5, <1>6 DEF Alike

(* What one event keeps, folding a stretch of them keeps.                  *)
LEMMA FoldAlike ==
    ASSUME NEW S, NEW t \in Seq(S), NEW m, NEW n, IsMemory(m), IsMemory(n), Alike(m, n)
    PROVE  /\ IsMemory(foldedWith(m, t)) /\ IsMemory(foldedWith(n, t))
           /\ Alike(foldedWith(m, t), foldedWith(n, t))
<1> DEFINE part(k) == SubSeq(t, 1, k)
           Kept(k) == /\ IsMemory(foldedWith(m, part(k))) /\ IsMemory(foldedWith(n, part(k)))
                      /\ Alike(foldedWith(m, part(k)), foldedWith(n, part(k)))
           Bad == {k \in 0 .. Len(t) : ~Kept(k)}
<1>1. Len(t) \in Nat /\ Bad \in SUBSET Nat
  BY LenProperties
<1>2. Kept(0)
  BY WholePrefix, FoldOfNone
<1>3. ASSUME NEW k \in Nat, k < Len(t), Kept(k)
      PROVE  Kept(k + 1)
  <2>1. part(k) \in Seq(S) /\ t[k + 1] \in S /\ part(k + 1) = Append(part(k), t[k + 1])
    BY <1>3, PrefixGrows
  <2> HIDE DEF part
  <2>2. /\ foldedWith(m, part(k + 1)) = apply(foldedWith(m, part(k)), t[k + 1])
        /\ foldedWith(n, part(k + 1)) = apply(foldedWith(n, part(k)), t[k + 1])
    BY <2>1, FoldOfAppend
  <2>3. QED
    BY <1>3, <2>2, ApplyKept, ApplyAlike
<1> HIDE DEF part
<1>4. Bad = {}
  <2> SUFFICES ASSUME Bad # {} PROVE FALSE
    OBVIOUS
  <2>1. Min(Bad) \in Bad /\ \A x \in Bad : Min(Bad) <= x
    <3> HIDE DEF Bad
    <3> QED BY <1>1, LeastNumber
  <2>2. PICK k : k = Min(Bad) - 1
    OBVIOUS
  <2>3. k + 1 \in Bad /\ k \in Nat /\ k < Len(t) /\ k \notin Bad
    <3> HIDE DEF Kept
    <3>1. Min(Bad) \in 0 .. Len(t) /\ Min(Bad) # 0
      BY <1>2, <2>1
    <3>2. \A x \in Bad : Min(Bad) <= x
      BY <2>1
    <3> HIDE DEF Bad
    <3>3. QED
      BY <1>1, <2>1, <2>2, <3>1, <3>2
  <2>4. k \in Nat /\ Kept(k)
    <3>1. k \in 0 .. Len(t)
      BY <1>1, <2>3
    <3>2. QED
      BY <2>3, <3>1
  <2>5. QED
    BY <1>3, <2>3, <2>4
<1>5. Kept(Len(t))
  BY <1>1, <1>4
<1>6. QED
  BY <1>5, WholePrefix DEF part

-----------------------------------------------------------------------------
(* The log: what a transaction adds to it is of the block it lands in.     *)

Written(s, b) == \E S : s \in Seq(S) /\ \A e \in S : e.block = b

LEMMA WrittenFrom ==
    ASSUME NEW b, NEW s, NEW S, s \in Seq(S), \A e \in S : e.block = b
    PROVE  Written(s, b)
BY DEF Written

LEMMA WrittenNone ==
    ASSUME NEW b
    PROVE  Written(<<>>, b)
<1>1. PICK S : S = {}
  OBVIOUS
<1>2. <<>> \in Seq(S) /\ \A e \in S : e.block = b
  BY <1>1, EmptySeq
<1>3. QED
  BY <1>2, WrittenFrom

LEMMA WrittenOne ==
    ASSUME NEW b, NEW e, e.block = b
    PROVE  Written(<<e>>, b)
<1>1. PICK S : S = {e}
  OBVIOUS
<1>2. <<e>> \in Seq(S) /\ \A x \in S : x.block = b
  BY <1>1
<1>3. QED
  BY <1>2, WrittenFrom

LEMMA WrittenJoin ==
    ASSUME NEW b, NEW s, NEW t, Written(s, b), Written(t, b)
    PROVE  Written(s \o t, b)
<1>1. PICK S : s \in Seq(S) /\ \A e \in S : e.block = b
  BY DEF Written
<1>2. PICK T : t \in Seq(T) /\ \A e \in T : e.block = b
  BY DEF Written
<1>3. s \in Seq(S \cup T) /\ t \in Seq(S \cup T)
  BY <1>1, <1>2, SeqMonotonic
<1>4. s \o t \in Seq(S \cup T)
  BY <1>3, ConcatProperties
<1>5. QED
  BY <1>1, <1>2, <1>4 DEF Written

LEMMA EventWritten ==
    ASSUME NEW name, NEW l, NEW who, NEW amount, NEW count
    PROVE  /\ Written(<<event(name, l, who, amount, count)>>, block)
           /\ Written(<<ofOne(name, l, who, amount)>>, block)
           /\ Written(<<ofNobody(name, l)>>, block)
BY WrittenOne DEF event, ofOne, ofNobody

LEMMA SetInSequence ==
    ASSUME NEW S, IsFiniteSet(S)
    PROVE  \E n \in Nat : SetToSeq(S) \in [1 .. n -> S]
<1>1. PICK n \in Nat : n = Cardinality(S)
  BY FS_CardinalityType
<1>2. ExistsBijection(1 .. n, S)
  BY <1>1, FS_CardinalityType
<1>3. PICK f \in [1 .. n -> S] : IsInjective(f)
  BY <1>2 DEF ExistsBijection, Bijection, Injection, IsInjective
<1>4. SetToSeq(S) \in [1 .. n -> S]
  BY <1>1, <1>3 DEF SetToSeq
<1>5. QED
  BY <1>4

LEMMA ClosedWritten ==
    ASSUME NEW s, NEW l
    PROVE  Written(closedEvents(s, l), block)
<1> DEFINE lobby == s.lobbies[l]
           paid  == SetToSeq(unpaid(lobby))
           repaid == [i \in DOMAIN paid |->
                         ofOne("RefundClaimed", l, paid[i], lobby.seats[paid[i]].paidIn)]
           theirs == lobby.creator # Game /\ ~lobby.creatorSettled /\ lobby.startPrizePool > 0
           bounty == IF theirs
                     THEN <<ofOne("CreatorSettled", l, lobby.creator, lobby.startPrizePool)>>
                     ELSE <<>>
<1>1. IsFiniteSet(unpaid(lobby))
  <2>1. unpaid(lobby) \in SUBSET Players
    BY DEF unpaid, Joined
  <2>2. QED
    BY <2>1, FS_Subset, PlayersAssumption
<1>2. PICK n \in Nat : DOMAIN paid = 1 .. n
  BY <1>1, SetInSequence
<1>3. Written(repaid, block)
  <2> DEFINE S == {e \in {repaid[i] : i \in 1 .. n} : TRUE}
  <2>1. repaid \in [1 .. n -> S]
    BY <1>2
  <2>2. \A e \in S : e.block = block
    BY <1>2 DEF ofOne, event
  <2> HIDE DEF repaid, S
  <2>3. repaid \in Seq(S)
    BY <2>1, SeqDef
  <2>4. QED
    BY <2>2, <2>3 DEF Written
<1>4. Written(bounty, block)
  BY EventWritten, WrittenNone
<1>5. closedEvents(s, l) = repaid \o bounty \o <<ofNobody("LobbyCancelled", l)>>
  BY DEF closedEvents
<1> HIDE DEF repaid, bounty
<1>6. QED
  BY <1>3, <1>4, <1>5, EventWritten, WrittenJoin

LEMMA UpkeepWritten ==
    ASSUME NEW s
    PROVE  Written(upkeepEvents(s), block)
<1> DEFINE leftover == unfilledPastDraw(s)
           ready    == topUpDraw(maybeCloseDraw(s))
           new      == Len(ready.lobbies) + 1
           one      == ofOne("LobbyCreated", new, Game, 0)
           two      == event("GlobalDefenseOpened", new, {}, ready.globalDefensePool, 0)
           closing  == IF leftover = 0 THEN <<>> ELSE closedEvents(s, leftover)
           opens    == IF drawDue(ready) THEN <<one, two>> ELSE <<>>
<1>1. Written(closing, block)
  BY ClosedWritten, WrittenNone
<1>2. Written(opens, block)
  <2>1. PICK S : S = {one, two}
    OBVIOUS
  <2>2. one.block = block /\ two.block = block
    BY DEF ofOne, event
  <2> HIDE DEF one, two
  <2>3. Written(<<one, two>>, block)
    <3>1. <<one, two>> \in Seq(S) /\ \A e \in S : e.block = block
      BY <2>1, <2>2
    <3>2. QED
      BY <3>1, WrittenFrom
  <2>4. QED
    BY <2>3, WrittenNone
<1>3. upkeepEvents(s) = closing \o opens
  BY DEF upkeepEvents
<1> HIDE DEF closing, opens
<1>4. QED
  BY <1>1, <1>2, <1>3, WrittenJoin

LEMMA StartedWritten ==
    ASSUME NEW s, NEW l
    PROVE  Written(startedEvents(s, l), block)
BY EventWritten, WrittenNone DEF startedEvents

LEMMA VerdictWritten ==
    ASSUME NEW s, NEW l
    PROVE  Written(verdictEvents(s, l), block)
<1> DEFINE void == IF s.lobbies[l].validActions = 0 THEN <<ofNobody("LobbyCancelled", l)>>
                   ELSE <<>>
<1>1. Written(void, block)
  BY EventWritten, WrittenNone
<1>2. verdictEvents(s, l)
        = void \o <<event("WinnerDetermined", l, Winners(s.lobbies[l]), 0, 0)>>
               \o upkeepEvents(verdict(s, l))
  BY DEF verdictEvents
<1> HIDE DEF void
<1>3. QED
  BY <1>1, <1>2, EventWritten, UpkeepWritten, WrittenJoin

Grown == block' = block /\ \E events : Written(events, block) /\ log' = log \o events

LEMMA EmitsGrows ==
    ASSUME NEW events, Written(events, block), emits(events), block' = block
    PROVE  Grown
BY DEF emits, Grown

LEMMA UpkeepAndOne ==
    ASSUME NEW s, NEW name, NEW l, NEW who, NEW amount, NEW count
    PROVE  /\ Written(upkeepEvents(s) \o <<event(name, l, who, amount, count)>>, block)
           /\ Written(upkeepEvents(s) \o <<ofOne(name, l, who, amount)>>, block)
BY EventWritten, UpkeepWritten, WrittenJoin

LEMMA SeatedGrow ==
    ASSUME NEW w, NEW l,
           Joins(w, l) \/ Leaves(w, l) \/ Acts(w, l) \/ Rewarded(w, l) \/ Refunded(w, l)
             \/ \E count \in 1 .. store.params.maxProbesPerPlayer : Buys(w, l, count)
    PROVE  Grown
<1>1. CASE Joins(w, l)
  <2>1. block' = block
    BY <1>1 DEF Joins, joinLobby
  <2>2. emits(upkeepEvents(store)
             \o <<event("PlayerJoined", l, {w}, store'.lobbies[l].seats[w].paidIn, seatsTaken(l))>>)
    BY <1>1 DEF Joins
  <2>3. QED
    BY <2>1, <2>2, UpkeepAndOne, EmitsGrows
<1>2. CASE Leaves(w, l)
  <2>1. block' = block
    BY <1>2 DEF Leaves, leaveLobby
  <2>2. emits(<<event("PlayerLeft", l, {w}, lobbyOf(l).seats[w].paidIn, seatsTaken(l))>>)
    BY <1>2 DEF Leaves
  <2>3. QED
    BY <2>1, <2>2, EventWritten, EmitsGrows
<1>3. CASE Acts(w, l)
  <2>1. block' = block
    BY <1>3 DEF Acts, sendProbe, submitDefense
  <2>2. PICK name : emits(upkeepEvents(store) \o startedEvents(maybeOpenDraw(store), l)
                          \o <<ofOne(name, l, w, 0)>>)
    BY <1>3 DEF Acts
  <2>3. Written(upkeepEvents(store) \o startedEvents(maybeOpenDraw(store), l)
                \o <<ofOne(name, l, w, 0)>>, block)
    BY UpkeepWritten, StartedWritten, EventWritten, WrittenJoin
  <2>4. QED
    BY <2>1, <2>2, <2>3, EmitsGrows
<1>4. CASE Rewarded(w, l)
  <2> DEFINE lobby == lobbyOf(l)
             fee   == IF w = lobby.creator /\ ~lobby.creatorSettled THEN creatorDue(lobby) ELSE 0
             first == <<ofOne("RewardClaimed", l, w, lobby.rewardPerWinner)>>
             other == IF fee > 0 THEN <<ofOne("CreatorSettled", l, w, fee)>> ELSE <<>>
  <2>1. block' = block
    BY <1>4 DEF Rewarded, claimReward
  <2>2. emits(first \o other)
    BY <1>4 DEF Rewarded
  <2>3. Written(first, block) /\ Written(other, block)
    BY EventWritten, WrittenNone
  <2> HIDE DEF first, other
  <2>4. QED
    BY <2>1, <2>2, <2>3, WrittenJoin, EmitsGrows
<1>5. CASE Refunded(w, l)
  <2> DEFINE lobby == lobbyOf(l)
             bounty == IF w = lobby.creator /\ ~lobby.creatorSettled
                       THEN creatorRefundDue(lobby) ELSE 0
             first == IF bounty > 0 THEN <<ofOne("CreatorSettled", l, w, bounty)>> ELSE <<>>
             other == <<ofOne("RefundClaimed", l, w, store.balance - store'.balance)>>
  <2>1. block' = block
    BY <1>5 DEF Refunded, claimRefund
  <2>2. emits(first \o other)
    BY <1>5 DEF Refunded
  <2>3. Written(first, block) /\ Written(other, block)
    BY EventWritten, WrittenNone
  <2> HIDE DEF first, other
  <2>4. QED
    BY <2>1, <2>2, <2>3, WrittenJoin, EmitsGrows
<1>6. ASSUME NEW count, Buys(w, l, count)
      PROVE  Grown
  <2>1. block' = block
    BY <1>6 DEF Buys, buyProbes
  <2>2. emits(upkeepEvents(store) \o
              <<event("ProbesPurchased", l, {w}, store.params.probePrice * count, count)>>)
    BY <1>6 DEF Buys
  <2>3. QED
    BY <2>1, <2>2, UpkeepAndOne, EmitsGrows, Zenon
<1>7. QED
  BY <1>1, <1>2, <1>3, <1>4, <1>5, <1>6, Zenon

LEMMA ClosesGrow ==
    ASSUME NEW l, Closes(l) \/ AuthorPaid(l)
    PROVE  Grown
<1>1. CASE startOperation(l) /\ emits(startedEvents(store, l))
  BY <1>1, StartedWritten, EmitsGrows DEF startOperation
<1>2. CASE cancelLobby(l) /\ emits(closedEvents(store, l))
  BY <1>2, ClosedWritten, EmitsGrows DEF cancelLobby
<1>3. CASE (unlockRound(l) \/ revealEpochAttack(lobbyOf(l).epochId)) /\ emits(<<>>)
  BY <1>3, WrittenNone, EmitsGrows
     DEF unlockRound, completeAttack, revealEpochAttack, vars
<1>4. CASE expireAttack(l) /\ emits(<<ofNobody("AttackExpired", l), ofNobody("LobbyCancelled", l)>>)
  <2>1. block' = block
    BY <1>4 DEF expireAttack
  <2>2. PICK one, two : one = ofNobody("AttackExpired", l) /\ two = ofNobody("LobbyCancelled", l)
    OBVIOUS
  <2>3. one.block = block /\ two.block = block
    BY <2>2 DEF ofNobody, event
  <2>4. PICK S : S = {one, two}
    OBVIOUS
  <2>5. <<one, two>> \in Seq(S) /\ \A e \in S : e.block = block
    BY <2>3, <2>4
  <2>6. QED
    BY <1>4, <2>1, <2>2, <2>5, WrittenFrom, EmitsGrows
<1>5. CASE AuthorPaid(l)
  <2> DEFINE paid == IF lobbyOf(l).creator = Game THEN <<>>
                     ELSE <<ofOne("CreatorSettled", l, lobbyOf(l).creator, creatorDue(lobbyOf(l)))>>
  <2>1. block' = block /\ emits(paid)
    BY <1>5 DEF AuthorPaid, settleCreator
  <2>2. Written(paid, block)
    BY EventWritten, WrittenNone
  <2> HIDE DEF paid
  <2>3. QED
    BY <2>1, <2>2, EmitsGrows
<1>6. QED
  BY <1>1, <1>2, <1>3, <1>4, <1>5 DEF Closes

LEMMA ScoresGrow ==
    ASSUME NEW l, Scores(l)
    PROVE  Grown
<1>1. ASSUME NEW hits, resolveLobby(l, hits),
             emits(startedEvents(store, l) \o verdictEvents(scoreAll(store, l, hits), l))
      PROVE  Grown
  <2>1. block' = block
    BY <1>1 DEF resolveLobby
  <2>2. QED
    BY <1>1, <2>1, StartedWritten, VerdictWritten, WrittenJoin, EmitsGrows
<1>2. ASSUME NEW hits, revealAndResolve(l, TRUE, hits),
             LET p == published(maybeOpenDraw(store), lobbyOf(l).epochId)
             IN  emits(upkeepEvents(store)
                       \o IF p.lobbies[l].resolvedAtBlock # 0 THEN <<>>
                          ELSE startedEvents(p, l) \o verdictEvents(scoreAll(p, l, hits), l))
      PROVE  Grown
  <2> DEFINE p == published(maybeOpenDraw(store), lobbyOf(l).epochId)
             after == IF p.lobbies[l].resolvedAtBlock # 0 THEN <<>>
                      ELSE startedEvents(p, l) \o verdictEvents(scoreAll(p, l, hits), l)
  <2>1. block' = block
    BY <1>2 DEF revealAndResolve
  <2>2. Written(startedEvents(p, l) \o verdictEvents(scoreAll(p, l, hits), l), block)
    BY StartedWritten, VerdictWritten, WrittenJoin
  <2>3. Written(after, block)
    BY <2>2, WrittenNone
  <2>4. emits(upkeepEvents(store) \o after)
    BY <1>2
  <2> HIDE DEF after
  <2>5. QED
    BY <2>1, <2>3, <2>4, UpkeepWritten, WrittenJoin, EmitsGrows
<1>3. CASE revealAndResolve(l, FALSE, {}) /\ emits(upkeepEvents(store))
  <2>1. block' = block
    BY <1>3 DEF revealAndResolve
  <2>2. QED
    BY <1>3, <2>1, UpkeepWritten, EmitsGrows
<1>4. ASSUME NEW subset, NEW hits, proveDefenses(l, subset, hits),
             emits(upkeepEvents(store) \o startedEvents(maybeOpenDraw(store), l))
      PROVE  Grown
  <2>1. block' = block
    BY <1>4 DEF proveDefenses
  <2>2. QED
    BY <1>4, <2>1, UpkeepWritten, StartedWritten, WrittenJoin, EmitsGrows
<1>5. ASSUME finalizeScoring(l),
             LET ready == maybeOpenDraw(store)
             IN  emits(upkeepEvents(store) \o startedEvents(ready, l)
                       \o verdictEvents(activate(ready, l), l))
      PROVE  Grown
  <2>1. block' = block
    BY <1>5 DEF finalizeScoring
  <2>2. PICK ready : emits(upkeepEvents(store) \o startedEvents(ready, l)
                           \o verdictEvents(activate(ready, l), l))
    BY <1>5
  <2>3. Written(upkeepEvents(store) \o startedEvents(ready, l)
                \o verdictEvents(activate(ready, l), l), block)
    BY UpkeepWritten, StartedWritten, VerdictWritten, WrittenJoin
  <2>4. QED
    BY <2>1, <2>2, <2>3, EmitsGrows
<1>6. QED
  BY <1>1, <1>2, <1>3, <1>4, <1>5, Zenon DEF Scores

LEMMA TransactsGrows ==
    ASSUME Transacts
    PROVE  Grown
<1>1. CASE OpensDraw
  <2> DEFINE closed == maybeCloseDraw(store)
             new    == Len(closed.lobbies) + 1
             one    == ofOne("LobbyCreated", new, Game, 0)
             two    == event("GlobalDefenseOpened", new, {}, closed.globalDefensePool, 0)
             closing == IF unfilledPastDraw(store) = 0 THEN <<>>
                        ELSE closedEvents(store, unfilledPastDraw(store))
  <2>1. block' = block /\ emits(closing \o <<one, two>>)
    BY <1>1 DEF OpensDraw, openGlobalDefense
  <2>2. Written(closing, block)
    BY ClosedWritten, WrittenNone
  <2>3. one.block = block /\ two.block = block
    BY DEF ofOne, event
  <2> HIDE DEF one, two, closing
  <2>4. PICK S : S = {one, two}
    OBVIOUS
  <2>5. <<one, two>> \in Seq(S) /\ \A e \in S : e.block = block
    BY <2>3, <2>4
  <2>6. Written(<<one, two>>, block)
    BY <2>5, WrittenFrom
  <2>7. QED
    BY <2>1, <2>2, <2>6, WrittenJoin, EmitsGrows
<1>2. ASSUME NEW w, NEW config, NEW d, Created(w, config, d)
      PROVE  Grown
  <2>1. block' = block
    BY <1>2 DEF Created, createLobby
  <2>2. emits(upkeepEvents(store)
              \o <<ofOne("LobbyCreated", Len(store'.lobbies), w, 0)>>)
    BY <1>2 DEF Created
  <2>3. QED
    BY <2>1, <2>2, UpkeepAndOne, EmitsGrows
<1>3. QED
  BY <1>1, <1>2, SeatedGrow, ClosesGrow, ScoresGrow, Zenon DEF Transacts

-----------------------------------------------------------------------------
(* Stretches of a log.                                                     *)

(* A log in the order of its blocks, none of them after b.                 *)
Dated(s, b) ==
    /\ \E S : s \in Seq(S)
    /\ \A i \in 1 .. Len(s) : s[i].block \in Nat /\ s[i].block <= b
    /\ \A i, j \in 1 .. Len(s) : i <= j => s[i].block <= s[j].block

(* The first k events are those of the blocks before b.                    *)
Cut(s, b, k) ==
    /\ k \in 0 .. Len(s)
    /\ \A i \in 1 .. Len(s) : i <= k <=> s[i].block < b

before(s, b) == Cardinality({i \in DOMAIN s : s[i].block < b})

(* The events of the blocks from a on, before b.                           *)
stretch(s, a, b) == SubSeq(s, before(s, a) + 1, before(s, b))

LEMMA CutExists ==
    ASSUME NEW s, NEW b \in Nat, NEW c \in Nat, Dated(s, c)
    PROVE  \E k : Cut(s, b, k)
<1>1. PICK n : n = Len(s)
  OBVIOUS
<1>2. n \in Nat
  <2>1. PICK S : s \in Seq(S)
    BY DEF Dated
  <2>2. QED
    BY <1>1, <2>1, LenProperties
<1>3. \A i \in 1 .. n : s[i].block \in Nat
  BY <1>1 DEF Dated
<1>4. \A i, j \in 1 .. n : i <= j => s[i].block <= s[j].block
  BY <1>1 DEF Dated
<1> DEFINE late == {i \in 1 .. n : s[i].block >= b}
<1>5. CASE late = {}
  <2>1. \A i \in 1 .. n : s[i].block < b
    BY <1>3, <1>5
  <2>2. Cut(s, b, n)
    BY <1>1, <1>2, <2>1 DEF Cut
  <2>3. QED
    BY <2>2
<1>6. CASE late # {}
  <2>1. late \in SUBSET Nat
    OBVIOUS
  <2>2. Min(late) \in late /\ \A i \in late : Min(late) <= i
    <3> HIDE DEF late
    <3> QED BY <1>6, <2>1, LeastNumber
  <2>3. PICK m : m = Min(late)
    OBVIOUS
  <2>4. m \in 1 .. n /\ s[m].block >= b
    BY <2>2, <2>3
  <2>5. \A i \in 1 .. n : i < m => s[i].block < b
    <3>1. \A i \in 1 .. n : s[i].block >= b => m <= i
      BY <2>2, <2>3
    <3>2. QED
      BY <1>3, <2>4, <3>1
  <2>6. \A i \in 1 .. n : m <= i => s[i].block >= b
    BY <1>3, <1>4, <2>4
  <2>7. \A i \in 1 .. n : i <= m - 1 <=> s[i].block < b
    BY <1>3, <2>4, <2>5, <2>6
  <2>8. Cut(s, b, m - 1)
    BY <1>1, <1>2, <2>4, <2>7 DEF Cut
  <2>9. QED
    BY <2>8
<1>7. QED
  BY <1>5, <1>6

LEMMA CutIsUnique ==
    ASSUME NEW s, NEW b, NEW k, NEW j, NEW S, s \in Seq(S), Cut(s, b, k), Cut(s, b, j)
    PROVE  k = j
<1>1. Len(s) \in Nat
  BY LenProperties
<1>2. k \in 0 .. Len(s) /\ j \in 0 .. Len(s)
  BY DEF Cut
<1>3. \A i \in 1 .. Len(s) : i <= k <=> i <= j
  BY DEF Cut
<1>4. k <= j
  BY <1>1, <1>2, <1>3
<1>5. j <= k
  BY <1>1, <1>2, <1>3
<1>6. QED
  BY <1>1, <1>2, <1>4, <1>5

LEMMA BeforeIsCut ==
    ASSUME NEW s, NEW b \in Nat, NEW c \in Nat, Dated(s, c)
    PROVE  /\ Cut(s, b, before(s, b))
           /\ \A k : Cut(s, b, k) => before(s, b) = k
<1>1. PICK S : s \in Seq(S)
  BY DEF Dated
<1>2. DOMAIN s = 1 .. Len(s) /\ Len(s) \in Nat
  BY <1>1, LenProperties
<1>3. PICK k : Cut(s, b, k)
  BY CutExists
<1>4. {i \in DOMAIN s : s[i].block < b} = 1 .. k
  BY <1>2, <1>3 DEF Cut
<1>5. k \in Nat /\ Cardinality(1 .. k) = k
  <2>1. k \in Nat
    BY <1>2, <1>3 DEF Cut
  <2>2. Cardinality(1 .. k) = IF 1 > k THEN 0 ELSE k - 1 + 1
    BY <2>1, FS_Interval
  <2>3. QED
    BY <2>1, <2>2
<1>6. before(s, b) = k
  BY <1>4, <1>5 DEF before
<1>7. QED
  BY <1>1, <1>3, <1>6, CutIsUnique

LEMMA BeforeGrows ==
    ASSUME NEW s, NEW a \in Nat, NEW b \in Nat, NEW c \in Nat, Dated(s, c), a <= b
    PROVE  before(s, a) <= before(s, b)
<1>1. PICK S : s \in Seq(S)
  BY DEF Dated
<1>2. PICK j, k : j = before(s, a) /\ k = before(s, b)
  OBVIOUS
<1>3. Cut(s, a, j) /\ Cut(s, b, k)
  BY <1>2, BeforeIsCut
<1>4. Len(s) \in Nat
  BY <1>1, LenProperties
<1>5. j \in 0 .. Len(s) /\ k \in 0 .. Len(s)
  BY <1>3 DEF Cut
<1>6. CASE j = 0
  BY <1>2, <1>4, <1>5, <1>6
<1>7. CASE j # 0
  <2>1. j \in 1 .. Len(s) /\ j <= j
    BY <1>4, <1>5, <1>7
  <2>2. s[j].block \in Nat /\ s[j].block < a
    BY <1>3, <2>1 DEF Cut, Dated
  <2>3. s[j].block < b
    BY <2>2
  <2>4. j <= k
    BY <1>3, <2>1, <2>3 DEF Cut
  <2>5. QED
    BY <1>2, <2>4
<1>8. QED
  BY <1>6, <1>7

(* Two stretches that meet are one.                                        *)
LEMMA StretchesMeet ==
    ASSUME NEW s, NEW S, s \in Seq(S), NEW c \in Nat, Dated(s, c),
           NEW a \in Nat, NEW b \in Nat, NEW d \in Nat, a <= b, b <= d
    PROVE  /\ stretch(s, a, b) \in Seq(S) /\ stretch(s, b, d) \in Seq(S)
           /\ stretch(s, a, b) \o stretch(s, b, d) = stretch(s, a, d)
<1>1. PICK i, j, k : i = before(s, a) /\ j = before(s, b) /\ k = before(s, d)
  OBVIOUS
<1>2. Cut(s, a, i) /\ Cut(s, b, j) /\ Cut(s, d, k)
  BY <1>1, BeforeIsCut
<1>3. Len(s) \in Nat
  BY LenProperties
<1>4. /\ i \in 0 .. Len(s) /\ j \in 0 .. Len(s) /\ k \in 0 .. Len(s)
  BY <1>2 DEF Cut
<1>5. i <= j /\ j <= k
  BY <1>1, BeforeGrows
<1>6. /\ i + 1 \in 1 .. Len(s) + 1 /\ j \in (i + 1) - 1 .. Len(s) /\ k \in j .. Len(s)
  BY <1>3, <1>4, <1>5
<1>7. SubSeq(s, i + 1, j) \o SubSeq(s, j + 1, k) = SubSeq(s, i + 1, k)
  BY <1>6, ConcatAdjacentSubSeq
<1>8. \A x \in 1 .. Len(s) : s[x] \in S
  BY ElementOfSeq
<1>9. SubSeq(s, i + 1, j) \in Seq(S)
  <2>1. \A x \in i + 1 .. j : s[x] \in S
    BY <1>3, <1>4, <1>8
  <2>2. i + 1 \in Int /\ j \in Int
    BY <1>3, <1>4
  <2>3. QED
    BY <2>1, <2>2, SubSeqProperties
<1>10. SubSeq(s, j + 1, k) \in Seq(S)
  <2>1. \A x \in j + 1 .. k : s[x] \in S
    BY <1>3, <1>4, <1>8
  <2>2. j + 1 \in Int /\ k \in Int
    BY <1>3, <1>4
  <2>3. QED
    BY <2>1, <2>2, SubSeqProperties
<1>11. QED
  BY <1>1, <1>7, <1>9, <1>10 DEF stretch

LEMMA EmptyStretch ==
    ASSUME NEW s, NEW c \in Nat, Dated(s, c), NEW a \in Nat
    PROVE  stretch(s, a, a) = <<>>
<1>1. PICK k : k = before(s, a)
  OBVIOUS
<1>2. Len(s) \in Nat
  BY LenProperties DEF Dated
<1>3. k \in Int
  BY <1>1, <1>2, BeforeIsCut DEF Cut
<1>4. SubSeq(s, k + 1, k) = <<>>
  BY <1>3, SubSeqEmpty
<1>5. QED
  BY <1>1, <1>4 DEF stretch

(* What two logs share, they share stretch by stretch.                     *)
Shares(s, t, b, k) ==
    /\ Cut(s, b, k) /\ Cut(t, b, k)
    /\ \A i \in 1 .. k : s[i] = t[i]

LEMMA SharedStretch ==
    ASSUME NEW s, NEW t, NEW c \in Nat, NEW d \in Nat, Dated(s, c), Dated(t, d),
           NEW a \in Nat, NEW b \in Nat, a <= b, NEW k, Shares(s, t, b, k)
    PROVE  stretch(s, a, b) = stretch(t, a, b)
<1>1. PICK S : s \in Seq(S)
  BY DEF Dated
<1>2. PICK T : t \in Seq(T)
  BY DEF Dated
<1>3. Len(s) \in Nat /\ Len(t) \in Nat
  BY <1>1, <1>2, LenProperties
<1>4. before(s, b) = k /\ before(t, b) = k /\ k \in 0 .. Len(s) /\ k \in 0 .. Len(t)
  BY BeforeIsCut DEF Shares, Cut
<1>5. PICK j : j = before(s, a)
  OBVIOUS
<1>6. Cut(s, a, j) /\ j <= k
  BY <1>4, <1>5, BeforeIsCut, BeforeGrows
<1>7. Cut(t, a, j)
  <2>1. j \in 0 .. Len(s)
    BY <1>6 DEF Cut
  <2>2. ASSUME NEW i \in 1 .. Len(t)
        PROVE  i <= j <=> t[i].block < a
    <3>1. CASE i <= k
      <4>1. i \in 1 .. Len(s) /\ s[i] = t[i]
        BY <1>3, <1>4, <2>2, <3>1 DEF Shares
      <4>2. QED
        BY <1>6, <4>1 DEF Cut
    <3>2. CASE ~(i <= k)
      <4>1. ~(t[i].block < b) /\ t[i].block \in Nat
        BY <2>2, <3>2 DEF Shares, Cut, Dated
      <4>2. ~(t[i].block < a)
        BY <4>1
      <4>3. ~(i <= j)
        BY <1>3, <1>4, <1>6, <2>1, <2>2, <3>2
      <4>4. QED
        BY <4>2, <4>3
    <3>3. QED
      BY <3>1, <3>2
  <2>3. QED
    BY <1>3, <1>4, <1>6, <2>1, <2>2 DEF Cut
<1>8. before(t, a) = j
  BY <1>7, BeforeIsCut
<1>9. j \in 0 .. Len(s)
  BY <1>6 DEF Cut
<1>10. SubSeq(s, j + 1, k) = SubSeq(t, j + 1, k)
  <2>1. PICK U : s \in Seq(U) /\ t \in Seq(U)
    <3>1. s \in Seq(S \cup T) /\ t \in Seq(S \cup T)
      BY <1>1, <1>2, SeqMonotonic
    <3>2. QED
      BY <3>1
  <2>2. (\A x \in j + 1 .. k : s[x] \in U) /\ (\A x \in j + 1 .. k : t[x] \in U)
    <3>1. \A x \in 1 .. Len(s) : s[x] \in U
      BY <2>1, ElementOfSeq
    <3>2. \A x \in 1 .. Len(t) : t[x] \in U
      BY <2>1, ElementOfSeq
    <3>3. QED
      BY <1>3, <1>4, <1>9, <3>1, <3>2
  <2>3. j + 1 \in Int /\ k \in Int
    BY <1>3, <1>4, <1>9
  <2>4. PICK u, v : u = SubSeq(s, j + 1, k) /\ v = SubSeq(t, j + 1, k)
    OBVIOUS
  <2>5. /\ u \in Seq(U) /\ Len(u) = IF j + 1 <= k THEN k - (j + 1) + 1 ELSE 0
        /\ \A i \in 1 .. k - (j + 1) + 1 : u[i] = s[j + 1 + i - 1]
    BY <2>2, <2>3, <2>4, SubSeqProperties
  <2>6. /\ v \in Seq(U) /\ Len(v) = IF j + 1 <= k THEN k - (j + 1) + 1 ELSE 0
        /\ \A i \in 1 .. k - (j + 1) + 1 : v[i] = t[j + 1 + i - 1]
    BY <2>2, <2>3, <2>4, SubSeqProperties
  <2>7. \A i \in 1 .. k : s[i] = t[i]
    BY DEF Shares
  <2>8. Len(u) = Len(v) /\ \A i \in 1 .. Len(u) : u[i] = v[i]
    <3>1. CASE j + 1 <= k
      <4>1. Len(u) = k - j /\ Len(v) = k - j
        BY <1>3, <1>4, <1>9, <2>5, <2>6, <3>1
      <4>2. \A i \in 1 .. k - j : u[i] = s[j + i] /\ v[i] = t[j + i] /\ j + i \in 1 .. k
        BY <1>3, <1>4, <1>9, <2>5, <2>6, <3>1
      <4>3. QED
        BY <2>7, <4>1, <4>2
    <3>2. CASE ~(j + 1 <= k)
      BY <2>5, <2>6, <3>2
    <3>3. QED
      BY <3>1, <3>2
  <2>9. QED
    BY <2>4, <2>5, <2>6, <2>8, SeqEqual
<1>11. QED
  BY <1>4, <1>5, <1>8, <1>10 DEF stretch

(* A transaction adds to the block under way: the blocks before it keep    *)
(* their events.                                                           *)
LEMMA LogGrows ==
    ASSUME NEW s, NEW t, NEW b \in Nat, Dated(s, b), Written(t, b)
    PROVE  /\ Dated(s \o t, b)
           /\ \A a \in Nat : a <= b => Shares(s, s \o t, a, before(s, a))
           /\ \A a \in Nat : \A k : a <= b /\ Cut(s, a, k) => Cut(s \o t, a, k)
<1>1. PICK S : s \in Seq(S)
  BY DEF Dated
<1>2. PICK T : t \in Seq(T) /\ \A e \in T : e.block = b
  BY DEF Written
<1>3. PICK U : s \in Seq(U) /\ t \in Seq(U)
  <2>1. s \in Seq(S \cup T) /\ t \in Seq(S \cup T)
    BY <1>1, <1>2, SeqMonotonic
  <2>2. QED
    BY <2>1
<1>4. PICK u, m, n : u = s \o t /\ m = Len(s) /\ n = Len(t)
  OBVIOUS
<1>5. m \in Nat /\ n \in Nat
  BY <1>3, <1>4, LenProperties
<1>6. /\ u \in Seq(U) /\ Len(u) = m + n
      /\ \A i \in 1 .. m + n : u[i] = IF i <= m THEN s[i] ELSE t[i - m]
  BY <1>3, <1>4, ConcatProperties
<1>7. \A i \in 1 .. m : u[i] = s[i] /\ s[i].block \in Nat /\ s[i].block <= b
  <2>1. \A i \in 1 .. m : s[i].block \in Nat /\ s[i].block <= b
    BY <1>4 DEF Dated
  <2>2. QED
    BY <1>5, <1>6, <2>1
<1>8. \A i \in 1 .. m + n : i > m => u[i].block = b
  <2> SUFFICES ASSUME NEW i \in 1 .. m + n, i > m PROVE u[i].block = b
    OBVIOUS
  <2>1. i - m \in 1 .. n /\ u[i] = t[i - m]
    BY <1>5, <1>6
  <2>2. t[i - m] \in T
    BY <1>2, <1>4, <2>1, ElementOfSeq
  <2>3. QED
    BY <1>2, <2>1, <2>2
<1>9. Dated(u, b)
  <2>1. \A i \in 1 .. m + n : u[i].block \in Nat /\ u[i].block <= b
    BY <1>5, <1>7, <1>8
  <2>2. ASSUME NEW i \in 1 .. m + n, NEW j \in 1 .. m + n, i <= j
        PROVE  u[i].block <= u[j].block
    <3>1. CASE j > m
      BY <1>8, <2>1, <3>1
    <3>2. CASE ~(j > m)
      <4>1. i \in 1 .. m /\ j \in 1 .. m
        BY <1>5, <2>2, <3>2
      <4>2. s[i].block <= s[j].block
        BY <1>4, <2>2, <4>1 DEF Dated
      <4>3. QED
        BY <1>7, <4>1, <4>2
    <3>3. QED
      BY <3>1, <3>2
  <2>3. QED
    BY <1>6, <2>1, <2>2 DEF Dated
<1>10. ASSUME NEW a \in Nat, a <= b, NEW k, Cut(s, a, k)
       PROVE  Cut(u, a, k)
  <2>1. k \in 0 .. m /\ \A i \in 1 .. m : i <= k <=> s[i].block < a
    BY <1>4, <1>10 DEF Cut
  <2>2. ASSUME NEW i \in 1 .. m + n
        PROVE  i <= k <=> u[i].block < a
    <3>1. CASE i > m
      BY <1>5, <1>8, <1>10, <2>1, <3>1
    <3>2. CASE ~(i > m)
      <4>1. i \in 1 .. m
        BY <1>5, <3>2
      <4>2. QED
        BY <1>7, <2>1, <4>1
    <3>3. QED
      BY <3>1, <3>2
  <2>3. k \in 0 .. m + n
    BY <1>5, <2>1
  <2>4. QED
    BY <1>6, <2>2, <2>3 DEF Cut
<1>11. ASSUME NEW a \in Nat, a <= b
       PROVE  Shares(s, u, a, before(s, a))
  <2>1. PICK k : k = before(s, a)
    OBVIOUS
  <2>2. Cut(s, a, k) /\ Cut(u, a, k)
    BY <1>10, <1>11, <2>1, BeforeIsCut
  <2>3. k \in 0 .. m
    BY <1>4, <2>2 DEF Cut
  <2>4. \A i \in 1 .. k : s[i] = u[i]
    BY <1>5, <1>7, <2>3
  <2>5. QED
    BY <2>1, <2>2, <2>4 DEF Shares
<1>12. QED
  BY <1>4, <1>9, <1>10, <1>11

(* A reorganisation drops the events from a block on, and no others.       *)
LEMMA LogCutBack ==
    ASSUME NEW s, NEW c \in Nat, Dated(s, c), NEW b \in Nat, NEW k, Cut(s, b, k)
    PROVE  /\ Dated(SubSeq(s, 1, k), b)
           /\ \A a \in Nat : a <= b => Shares(s, SubSeq(s, 1, k), a, before(s, a))
<1>1. PICK S : s \in Seq(S)
  BY DEF Dated
<1>2. PICK t, m : t = SubSeq(s, 1, k) /\ m = Len(s)
  OBVIOUS
<1>3. m \in Nat /\ k \in 0 .. m
  BY <1>1, <1>2, LenProperties DEF Cut
<1>4. t \in Seq(S) /\ Len(t) = k /\ \A i \in 1 .. k : t[i] = s[i]
  <2>1. \A x \in 1 .. k : s[x] \in S
    BY <1>1, <1>2, <1>3, ElementOfSeq
  <2>2. k \in Int /\ 1 \in Int
    BY <1>3
  <2>3. /\ t \in Seq(S) /\ Len(t) = IF 1 <= k THEN k - 1 + 1 ELSE 0
        /\ \A i \in 1 .. k - 1 + 1 : t[i] = s[1 + i - 1]
    BY <1>2, <2>1, <2>2, SubSeqProperties
  <2>4. k - 1 + 1 = k /\ \A i \in 1 .. k : 1 + i - 1 = i
    BY <1>3
  <2>5. QED
    BY <1>3, <2>3, <2>4
<1>5. \A i \in 1 .. m : /\ s[i].block \in Nat /\ (i <= k <=> s[i].block < b)
                        /\ \A j \in 1 .. m : i <= j => s[i].block <= s[j].block
  BY <1>2 DEF Dated, Cut
<1>6. \A i \in 1 .. k : i \in 1 .. m /\ i <= k
  BY <1>3
<1>7. Dated(t, b)
  <2>1. \A i \in 1 .. k : t[i].block \in Nat /\ t[i].block <= b
    BY <1>4, <1>5, <1>6
  <2>2. \A i, j \in 1 .. k : i <= j => t[i].block <= t[j].block
    BY <1>4, <1>5, <1>6
  <2>3. QED
    BY <1>4, <2>1, <2>2 DEF Dated
<1>8. ASSUME NEW a \in Nat, a <= b
      PROVE  Shares(s, t, a, before(s, a))
  <2>1. PICK j : j = before(s, a)
    OBVIOUS
  <2>2. Cut(s, a, j)
    BY <2>1, BeforeIsCut
  <2>3. j \in 0 .. m /\ \A i \in 1 .. m : i <= j <=> s[i].block < a
    BY <1>2, <2>2 DEF Cut
  <2>4. j <= k
    <3>1. CASE j = 0
      BY <1>3, <3>1
    <3>2. CASE j # 0
      <4>1. j \in 1 .. m /\ j <= j
        BY <1>3, <2>3, <3>2
      <4>2. s[j].block < b
        BY <1>5, <1>8, <2>3, <4>1
      <4>3. QED
        BY <1>5, <4>1, <4>2
    <3>3. QED
      BY <3>1, <3>2
  <2>5. Cut(t, a, j)
    <3>1. j \in 0 .. k
      BY <1>3, <2>3, <2>4
    <3>2. \A i \in 1 .. k : i <= j <=> t[i].block < a
      BY <1>4, <1>6, <2>3
    <3>3. QED
      BY <1>4, <3>1, <3>2 DEF Cut
  <2>6. \A i \in 1 .. j : s[i] = t[i]
    BY <1>3, <1>4, <2>3, <2>4
  <2>7. QED
    BY <2>1, <2>2, <2>5, <2>6 DEF Shares
<1>9. QED
  BY <1>2, <1>7, <1>8

LEMMA DatedLater ==
    ASSUME NEW s, NEW b \in Nat, Dated(s, b)
    PROVE  Dated(s, b + 1) /\ Cut(s, b + 1, Len(s))
<1>1. PICK S : s \in Seq(S)
  BY DEF Dated
<1>2. PICK n : n = Len(s) /\ n \in Nat
  BY <1>1, LenProperties
<1>3. \A i \in 1 .. n : s[i].block \in Nat /\ s[i].block <= b
  BY <1>2 DEF Dated
<1>4. \A i \in 1 .. n : s[i].block <= b + 1 /\ s[i].block < b + 1 /\ i <= n
  BY <1>2, <1>3
<1>5. QED
  BY <1>1, <1>2, <1>3, <1>4 DEF Dated, Cut

-----------------------------------------------------------------------------
(* The inductive invariant.                                                *)

(* The cursor is within the chain, and a sweep under way ends before the   *)
(* block under way.                                                        *)
ReaderInPlace ==
    /\ reader = [ pc |-> reader.pc, cursor |-> reader.cursor, target |-> reader.target,
                  bounty |-> reader.bounty, left |-> reader.left ]
    /\ reader.cursor \in Nat /\ FromBlock <= reader.cursor
    /\ reader.cursor # FromBlock => reader.cursor <= block
    /\ reader.pc # "asleep" => reader.target \in Nat /\ reader.target < block
    /\ reader.pc = "window" => reader.cursor <= reader.target

(* What a reorganisation may still undo, the reader has not read.          *)
NothingReadIsUndone ==
    /\ fork.at \in Nat /\ (fork.at # 0 => fork.at > Genesis)
    /\ fork.at # 0 /\ block >= fork.at =>
          /\ Cut(log, fork.at, fork.logged)
          /\ fork.at >= block - Confirmations
          /\ reader.cursor # FromBlock => reader.cursor <= fork.at
          /\ reader.pc # "asleep" => reader.target < fork.at

HoldsTheChain ==
    /\ IsMemory(memory)
    /\ Alike(memory, foldedWith(Nothing, stretch(log, FromBlock, reader.cursor)))

IndexerInv ==
    /\ block \in Nat /\ Genesis <= block /\ Dated(log, block)
    /\ ReaderInPlace /\ NothingReadIsUndone /\ HoldsTheChain

LEMMA NothingIsMemory == IsMemory(Nothing)
<1> DEFINE d == Nothing.directory
<1>1. d = [lobbies |-> <<>>, byPlayer |-> [w \in Addresses |-> <<>>]]
  BY DEF Nothing
<1>2. d.lobbies = <<>> /\ known(d) = {}
  <2>1. d.lobbies = <<>>
    BY <1>1
  <2>2. PICK S : <<>> \in Seq(S)
    BY EmptySeq
  <2>3. DOMAIN <<>> = {}
    BY <2>2, EmptySeq, LenProperties
  <2>4. QED
    BY <2>1, <2>3 DEF known
<1>3. <<>> = [l \in {} |-> row(d, l)]
  OBVIOUS
<1>4. IsDirectory(d)
  <2>1. d.byPlayer = [w \in Addresses |-> <<>>]
    BY <1>1
  <2>2. d.byPlayer = [w \in Addresses |-> d.byPlayer[w]]
    BY <2>1
  <2>3. d = [lobbies |-> d.lobbies, byPlayer |-> d.byPlayer]
    BY <1>1, <1>2, <2>1
  <2> HIDE DEF d
  <2>4. d.lobbies = [l \in known(d) |-> row(d, l)] /\ \A l \in known(d) : IsRow(row(d, l))
    BY <1>2, <1>3
  <2>5. QED
    BY <2>2, <2>3, <2>4 DEF IsDirectory
<1>5. Nothing = [ledger |-> Nothing.ledger, directory |-> d]
  BY DEF Nothing
<1>6. QED
  BY <1>4, <1>5 DEF IsMemory

LEMMA AlikeItself ==
    ASSUME NEW m
    PROVE  Alike(m, m)
BY DEF Alike

(* A reader at its first block holds nothing, whatever the log.            *)
LEMMA AtTheFirstBlock ==
    ASSUME NEW s, NEW c \in Nat, Dated(s, c)
    PROVE  foldedWith(Nothing, stretch(s, FromBlock, FromBlock)) = Nothing
BY EmptyStretch, FoldOfNone, IndexerAssumption

LEMMA IndexerInitHolds ==
    ASSUME IndexerInit
    PROVE  IndexerInv
<1>1. block = Genesis /\ log = <<>> /\ Genesis \in Nat
  BY NumbersAssumption DEF IndexerInit, ChainInit, Init
<1>2. reader = Asleep /\ memory = Nothing /\ \E h \in Histories : fork = [at |-> h.fork]
  BY DEF IndexerInit
<1>3. Dated(log, block)
  <2>1. PICK S : <<>> \in Seq(S) /\ Len(<<>>) = 0
    BY EmptySeq
  <2>2. QED
    BY <1>1, <2>1 DEF Dated
<1>4. FromBlock \in Nat
  BY IndexerAssumption
<1>5. ReaderInPlace
  BY <1>2, <1>4 DEF ReaderInPlace, Asleep
<1>6. NothingReadIsUndone
  <2>1. PICK h \in Histories : fork = [at |-> h.fork]
    BY <1>2
  <2>2. h.fork \in {0} \cup {b \in Nat : b > Genesis}
    BY IndexerAssumption
  <2>3. fork.at \in Nat /\ (fork.at # 0 => fork.at > Genesis)
    BY <2>1, <2>2
  <2>4. QED
    BY <1>1, <2>3 DEF NothingReadIsUndone
<1>7. HoldsTheChain
  <2>1. foldedWith(Nothing, stretch(log, FromBlock, reader.cursor)) = Nothing
    BY <1>1, <1>2, <1>3, AtTheFirstBlock DEF Asleep
  <2>2. QED
    BY <1>2, <2>1, NothingIsMemory, AlikeItself DEF HoldsTheChain
<1>8. QED
  BY <1>1, <1>3, <1>5, <1>6, <1>7 DEF IndexerInv

-----------------------------------------------------------------------------
(* The chain moves under the reader.                                       *)

(* The stretch read is a stretch of every log that shares what is before   *)
(* the cursor.                                                             *)
LEMMA StretchKept ==
    ASSUME IndexerInv, NEW t, NEW d \in Nat, Dated(t, d),
           reader.cursor # FromBlock =>
               Shares(log, t, reader.cursor, before(log, reader.cursor))
    PROVE  stretch(t, FromBlock, reader.cursor) = stretch(log, FromBlock, reader.cursor)
<1>1. /\ block \in Nat /\ Dated(log, block) /\ reader.cursor \in Nat
      /\ FromBlock \in Nat /\ FromBlock <= reader.cursor
  BY IndexerAssumption DEF IndexerInv, ReaderInPlace
<1>2. CASE reader.cursor = FromBlock
  BY <1>1, <1>2, EmptyStretch
<1>3. CASE reader.cursor # FromBlock
  BY <1>1, <1>3, SharedStretch
<1>4. QED
  BY <1>2, <1>3

LEMMA TransactedKeeps ==
    ASSUME IndexerInv, Transacted
    PROVE  IndexerInv'
<1>1. PICK events : Written(events, block) /\ log' = log \o events /\ block' = block
  BY TransactsGrows DEF Transacted, Grown
<1>2. UNCHANGED <<reader, memory, fork>>
  BY DEF Transacted
<1>3. block \in Nat /\ Genesis <= block /\ Dated(log, block)
  BY DEF IndexerInv
<1>4. ReaderInPlace /\ NothingReadIsUndone /\ HoldsTheChain
  BY DEF IndexerInv
<1>5. /\ Dated(log', block)
      /\ \A a \in Nat : a <= block => Shares(log, log', a, before(log, a))
      /\ \A a \in Nat : \A k : a <= block /\ Cut(log, a, k) => Cut(log', a, k)
  BY <1>1, <1>3, LogGrows
<1>6. ReaderInPlace'
  BY <1>1, <1>2, <1>4 DEF ReaderInPlace
<1>7. NothingReadIsUndone'
  <2>1. fork.at \in Nat /\ (fork.at # 0 => fork.at > Genesis)
    BY <1>4 DEF NothingReadIsUndone
  <2>2. ASSUME fork.at # 0, block >= fork.at
        PROVE  /\ Cut(log', fork.at, fork.logged)
               /\ fork.at >= block - Confirmations
               /\ reader.cursor # FromBlock => reader.cursor <= fork.at
               /\ reader.pc # "asleep" => reader.target < fork.at
    <3>1. /\ Cut(log, fork.at, fork.logged) /\ fork.at >= block - Confirmations
          /\ reader.cursor # FromBlock => reader.cursor <= fork.at
          /\ reader.pc # "asleep" => reader.target < fork.at
      BY <1>4, <2>2 DEF NothingReadIsUndone
    <3>2. fork.at <= block
      BY <1>3, <2>1, <2>2
    <3>3. QED
      BY <1>5, <2>1, <3>1, <3>2
  <2>3. QED
    BY <1>1, <1>2, <2>1, <2>2 DEF NothingReadIsUndone
<1>8. HoldsTheChain'
  <2>1. reader.cursor # FromBlock => Shares(log, log', reader.cursor, before(log, reader.cursor))
    BY <1>4, <1>5 DEF ReaderInPlace
  <2>2. stretch(log', FromBlock, reader.cursor) = stretch(log, FromBlock, reader.cursor)
    BY <1>3, <1>5, <2>1, StretchKept
  <2>3. QED
    BY <1>2, <1>4, <2>2 DEF HoldsTheChain
<1>9. QED
  BY <1>1, <1>3, <1>5, <1>6, <1>7, <1>8 DEF IndexerInv

LEMMA MinedKeeps ==
    ASSUME IndexerInv, Mined
    PROVE  IndexerInv'
<1>1. block' = block + 1 /\ UNCHANGED <<log, reader, memory>> /\ fork' = remembered
  BY DEF Mined, Tick
<1>2. block \in Nat /\ Genesis <= block /\ Dated(log, block)
  BY DEF IndexerInv
<1>3. ReaderInPlace /\ NothingReadIsUndone /\ HoldsTheChain
  BY DEF IndexerInv
<1>4. Dated(log, block + 1) /\ Cut(log, block + 1, Len(log))
  BY <1>2, DatedLater
<1>5. Genesis \in Nat /\ Confirmations \in Nat
  BY NumbersAssumption, IndexerAssumption
<1>6. ReaderInPlace'
  BY <1>1, <1>2, <1>3 DEF ReaderInPlace
<1>7. HoldsTheChain'
  BY <1>1, <1>3 DEF HoldsTheChain
<1>8. NothingReadIsUndone'
  <2>1. fork.at \in Nat /\ (fork.at # 0 => fork.at > Genesis)
    BY <1>3 DEF NothingReadIsUndone
  <2>2. CASE fork.at = block'
    <3>1. fork' = [at |-> block', store |-> store, logged |-> Len(log)]
      <4>1. ~(fork.at < block' - Confirmations)
        BY <1>1, <1>2, <1>5, <2>2
      <4>2. QED
        BY <1>1, <2>2, <4>1 DEF remembered
    <3>2. fork'.at = block + 1 /\ fork'.logged = Len(log)
      BY <1>1, <3>1
    <3>3. /\ Cut(log, fork'.at, fork'.logged) /\ fork'.at >= block' - Confirmations
          /\ fork'.at > Genesis /\ fork'.at \in Nat
      BY <1>1, <1>2, <1>4, <1>5, <3>2
    <3>4. /\ reader.cursor # FromBlock => reader.cursor <= fork'.at
          /\ reader.pc # "asleep" => reader.target < fork'.at
      BY <1>2, <1>3, <3>2 DEF ReaderInPlace
    <3>5. QED
      BY <1>1, <3>3, <3>4 DEF NothingReadIsUndone
  <2>3. CASE fork.at # block' /\ fork.at # 0 /\ fork.at < block' - Confirmations
    <3>1. fork' = [at |-> 0]
      BY <1>1, <2>3 DEF remembered, NoFork
    <3>2. fork'.at = 0
      BY <3>1
    <3>3. QED
      BY <3>2 DEF NothingReadIsUndone
  <2>4. CASE fork.at # block' /\ ~(fork.at # 0 /\ fork.at < block' - Confirmations)
    <3>1. fork' = fork
      BY <1>1, <2>4 DEF remembered
    <3>2. ASSUME fork.at # 0, block' >= fork.at
          PROVE  block >= fork.at /\ fork.at >= block' - Confirmations
      BY <1>1, <1>2, <1>5, <2>1, <2>4, <3>2
    <3>3. QED
      BY <1>1, <1>3, <2>1, <3>1, <3>2 DEF NothingReadIsUndone
  <2>5. QED
    BY <2>2, <2>3, <2>4
<1>9. QED
  BY <1>1, <1>2, <1>4, <1>5, <1>6, <1>7, <1>8 DEF IndexerInv

LEMMA ReorganisedKeeps ==
    ASSUME IndexerInv, Reorganised
    PROVE  IndexerInv'
<1>1. /\ fork.at # 0 /\ fork.at <= block - 1 /\ block' = fork.at
      /\ log' = SubSeq(log, 1, fork.logged) /\ fork' = [at |-> 0]
      /\ UNCHANGED <<reader, memory>>
  BY DEF Reorganised, NoFork
<1>2. block \in Nat /\ Genesis <= block /\ Dated(log, block)
  BY DEF IndexerInv
<1>3. ReaderInPlace /\ NothingReadIsUndone /\ HoldsTheChain
  BY DEF IndexerInv
<1>4. fork.at \in Nat /\ fork.at > Genesis /\ Genesis \in Nat
  BY <1>1, <1>3, NumbersAssumption DEF NothingReadIsUndone
<1>5. /\ Cut(log, fork.at, fork.logged)
      /\ reader.cursor # FromBlock => reader.cursor <= fork.at
      /\ reader.pc # "asleep" => reader.target < fork.at
  <2>1. block >= fork.at
    BY <1>1, <1>2, <1>4
  <2>2. QED
    BY <1>1, <1>3, <2>1 DEF NothingReadIsUndone
<1>6. /\ Dated(log', fork.at)
      /\ \A a \in Nat : a <= fork.at => Shares(log, log', a, before(log, a))
  BY <1>1, <1>2, <1>4, <1>5, LogCutBack
<1>7. ReaderInPlace'
  BY <1>1, <1>3, <1>5 DEF ReaderInPlace
<1>8. NothingReadIsUndone'
  <2>1. fork'.at = 0
    BY <1>1
  <2>2. QED
    BY <2>1 DEF NothingReadIsUndone
<1>9. HoldsTheChain'
  <2>1. reader.cursor # FromBlock => Shares(log, log', reader.cursor, before(log, reader.cursor))
    BY <1>3, <1>5, <1>6 DEF ReaderInPlace
  <2>2. stretch(log', FromBlock, reader.cursor) = stretch(log, FromBlock, reader.cursor)
    BY <1>4, <1>6, <2>1, StretchKept
  <2>3. QED
    BY <1>1, <1>3, <2>2 DEF HoldsTheChain
<1>10. QED
  BY <1>1, <1>4, <1>6, <1>7, <1>8, <1>9 DEF IndexerInv

-----------------------------------------------------------------------------
(* The reader reads.                                                       *)

eventsAreAStretch(from, to) == eventsOf(from, to) = stretch(log, from, to + 1)

LEMMA EventsOf ==
    ASSUME NEW from, NEW to
    PROVE  eventsAreAStretch(from, to)
BY DEF eventsAreAStretch, eventsOf, loggedBefore, stretch, before

(* A step of the reader that folds nothing and moves no cursor.            *)
LEMMA ReaderTurns ==
    ASSUME IndexerInv, UNCHANGED <<block, log, fork>>, reader'.cursor = reader.cursor,
           ReaderInPlace', reader'.pc # "asleep" => reader'.target = target
                              \/ (reader.pc # "asleep" /\ reader'.target = reader.target),
           IsMemory(memory'), Alike(memory', memory)
    PROVE  IndexerInv'
<1>1. block \in Nat /\ Genesis <= block /\ Dated(log, block)
  BY DEF IndexerInv
<1>2. NothingReadIsUndone /\ HoldsTheChain
  BY DEF IndexerInv
<1>3. HoldsTheChain'
  BY <1>2 DEF HoldsTheChain, Alike
<1>4. NothingReadIsUndone'
  <2>1. Confirmations \in Nat /\ target = block - 1 - Confirmations
    BY IndexerAssumption DEF target, head
  <2>2. fork.at \in Nat /\ (fork.at # 0 => fork.at > Genesis)
    BY <1>2 DEF NothingReadIsUndone
  <2>3. ASSUME fork.at # 0 /\ block >= fork.at
        PROVE  /\ Cut(log, fork.at, fork.logged)
               /\ fork.at >= block - Confirmations
               /\ reader'.cursor # FromBlock => reader'.cursor <= fork.at
               /\ reader'.pc # "asleep" => reader'.target < fork.at
    <3>1. /\ Cut(log, fork.at, fork.logged) /\ fork.at >= block - Confirmations
          /\ reader.cursor # FromBlock => reader.cursor <= fork.at
          /\ reader.pc # "asleep" => reader.target < fork.at
      BY <1>2, <2>3 DEF NothingReadIsUndone
    <3>2. target < fork.at
      BY <1>1, <2>1, <2>2, <3>1
    <3>3. QED
      BY <3>1, <3>2
  <2>4. QED
    BY <2>2, <2>3 DEF NothingReadIsUndone
<1>5. QED
  BY <1>1, <1>3, <1>4 DEF IndexerInv

LEMMA WakesKeeps ==
    ASSUME IndexerInv, Wakes, UNCHANGED <<block, store, log, plan, fork>>
    PROVE  IndexerInv'
<1>1. /\ reader' = [reader EXCEPT !.pc = "window", !.target = target]
      /\ target >= reader.cursor /\ memory' = memory /\ UNCHANGED <<block, log, fork>>
  BY DEF Wakes, due
<1>2. ReaderInPlace /\ block \in Nat /\ HoldsTheChain
  BY DEF IndexerInv
<1>3. reader' = [ pc |-> "window", cursor |-> reader.cursor, target |-> target,
                  bounty |-> reader.bounty, left |-> reader.left ]
  BY <1>1, <1>2 DEF ReaderInPlace
<1>4. Confirmations \in Nat /\ target = block - 1 - Confirmations
  BY IndexerAssumption DEF target, head
<1>5. target \in Nat /\ target < block
  BY <1>1, <1>2, <1>4 DEF ReaderInPlace
<1>6. /\ reader'.pc = "window" /\ reader'.cursor = reader.cursor /\ reader'.target = target
      /\ reader' = [ pc |-> reader'.pc, cursor |-> reader'.cursor, target |-> reader'.target,
                     bounty |-> reader'.bounty, left |-> reader'.left ]
  BY <1>3
<1>7. ReaderInPlace'
  BY <1>1, <1>2, <1>5, <1>6 DEF ReaderInPlace
<1>8. QED
  BY <1>1, <1>2, <1>6, <1>7, ReaderTurns, AlikeItself DEF HoldsTheChain

(* The window that came back is the next stretch, and is folded on top.    *)
LEMMA FoldsKeeps ==
    ASSUME IndexerInv, Folds, UNCHANGED <<block, store, log, plan, fork>>
    PROVE  IndexerInv'
<1>1. block \in Nat /\ Genesis <= block /\ Dated(log, block)
  BY DEF IndexerInv
<1>2. ReaderInPlace /\ NothingReadIsUndone /\ HoldsTheChain
  BY DEF IndexerInv
<1>3. PICK c, e, t : c = reader.cursor /\ e = windowEnd /\ t = reader.target
  OBVIOUS
<1>4. /\ reader.pc = "window" /\ c \in Nat /\ FromBlock \in Nat /\ FromBlock <= c
      /\ t \in Nat /\ t < block /\ c <= t
  BY <1>2, <1>3, IndexerAssumption DEF Folds, ReaderInPlace
<1>5. e \in Nat /\ c <= e /\ e <= t
  <2>1. WindowBlocks \in Nat \ {0}
    BY IndexerAssumption
  <2>2. e = IF c + WindowBlocks - 1 > t THEN t ELSE c + WindowBlocks - 1
    BY <1>3 DEF windowEnd
  <2>3. QED
    BY <1>4, <2>1, <2>2
<1>6. PICK pc, left :
         /\ reader' = [ pc |-> pc, cursor |-> e + 1, target |-> t,
                        bounty |-> reader.bounty, left |-> left ]
         /\ pc = "window" => e < t
  <2>1. reader = [ pc |-> "window", cursor |-> c, target |-> t,
                   bounty |-> reader.bounty, left |-> reader.left ]
    BY <1>2, <1>3, <1>4 DEF ReaderInPlace
  <2>2. CASE windowEnd < reader.target
    <3>1. reader' = [reader EXCEPT !.cursor = e + 1]
      BY <1>3, <2>2 DEF Folds, moved
    <3>2. reader' = [ pc |-> "window", cursor |-> e + 1, target |-> t,
                      bounty |-> reader.bounty, left |-> reader.left ]
      BY <2>1, <3>1
    <3>3. e < t
      BY <1>3, <2>2
    <3>4. QED
      BY <3>2, <3>3
  <2>3. CASE ~(windowEnd < reader.target)
    <3>1. PICK pc : pc = IF hasLiveDraw(memory'.directory) THEN "bounty" ELSE "rows"
      OBVIOUS
    <3>2. PICK ids : reader' = [reader EXCEPT !.cursor = e + 1, !.pc = pc, !.left = ids]
      BY <1>3, <2>3, <3>1 DEF Folds, moved
    <3>3. pc # "window"
      BY <3>1
    <3>4. reader' = [ pc |-> pc, cursor |-> e + 1, target |-> t,
                      bounty |-> reader.bounty, left |-> ids ]
      <4>1. PICK bounty, left : /\ bounty = reader.bounty
                                /\ reader = [ pc |-> "window", cursor |-> c, target |-> t,
                                              bounty |-> bounty, left |-> left ]
        BY <2>1
      <4>2. PICK f : f = e + 1
        OBVIOUS
      <4>3. reader' = [[[reader EXCEPT !.cursor = f] EXCEPT !.pc = pc] EXCEPT !.left = ids]
        BY <3>2, <4>2
      <4>4. reader' = [ pc |-> pc, cursor |-> f, target |-> t,
                        bounty |-> bounty, left |-> ids ]
        <5>1. PICK q : q = [reader EXCEPT !.cursor = f]
          OBVIOUS
        <5>2. PICK r : r = [q EXCEPT !.pc = pc]
          OBVIOUS
        <5>3. reader' = [r EXCEPT !.left = ids]
          BY <4>3, <5>1, <5>2, Zenon
        <5>4. q = [ pc |-> "window", cursor |-> f, target |-> t,
                    bounty |-> bounty, left |-> left ]
          BY <4>1, <5>1
        <5>5. r = [ pc |-> pc, cursor |-> f, target |-> t,
                    bounty |-> bounty, left |-> left ]
          BY <5>2, <5>4
        <5>6. QED
          BY <5>3, <5>5
      <4>5. QED
        BY <4>1, <4>2, <4>4
    <3>5. QED
      BY <3>3, <3>4
  <2>4. QED
    BY <2>2, <2>3
<1>7. /\ reader'.pc = pc /\ reader'.cursor = e + 1 /\ reader'.target = t
      /\ reader' = [ pc |-> reader'.pc, cursor |-> reader'.cursor, target |-> reader'.target,
                     bounty |-> reader'.bounty, left |-> reader'.left ]
  BY <1>6
<1>8. ReaderInPlace'
  <2>1. e + 1 \in Nat /\ FromBlock <= e + 1 /\ e + 1 <= block
    BY <1>1, <1>4, <1>5
  <2>2. pc = "window" => e + 1 <= t
    BY <1>4, <1>5, <1>6
  <2>3. QED
    BY <1>4, <1>7, <2>1, <2>2 DEF ReaderInPlace
<1>9. NothingReadIsUndone'
  <2>1. fork.at \in Nat /\ (fork.at # 0 => fork.at > Genesis)
    BY <1>2 DEF NothingReadIsUndone
  <2>2. ASSUME fork.at # 0 /\ block >= fork.at
        PROVE  /\ Cut(log, fork.at, fork.logged)
               /\ fork.at >= block - Confirmations
               /\ e + 1 <= fork.at /\ t < fork.at
    <3>1. /\ Cut(log, fork.at, fork.logged) /\ fork.at >= block - Confirmations
          /\ t < fork.at
      BY <1>2, <1>3, <1>4, <2>2 DEF NothingReadIsUndone
    <3>2. QED
      BY <1>4, <1>5, <2>1, <3>1
  <2>3. QED
    BY <1>7, <2>1, <2>2 DEF NothingReadIsUndone
<1>10. HoldsTheChain'
  <2>1. PICK S : log \in Seq(S)
    BY <1>1 DEF Dated
  <2> DEFINE old == stretch(log, FromBlock, c)
             new == stretch(log, c, e + 1)
  <2>2. e + 1 \in Nat /\ c <= e + 1
    BY <1>4, <1>5
  <2>3. old \in Seq(S) /\ new \in Seq(S) /\ old \o new = stretch(log, FromBlock, e + 1)
    BY <1>1, <1>4, <2>1, <2>2, StretchesMeet
  <2>4. memory' = foldedWith(memory, new)
    BY <1>3, EventsOf DEF Folds, eventsAreAStretch
  <2>5. IsMemory(memory) /\ Alike(memory, foldedWith(Nothing, old))
    BY <1>2, <1>3 DEF HoldsTheChain
  <2> HIDE DEF old, new
  <2>6. IsMemory(foldedWith(Nothing, old))
    BY <2>3, NothingIsMemory, AlikeItself, FoldAlike
  <2>7. /\ IsMemory(foldedWith(memory, new))
        /\ Alike(foldedWith(memory, new), foldedWith(foldedWith(Nothing, old), new))
    BY <2>3, <2>5, <2>6, FoldAlike
  <2>8. foldedWith(foldedWith(Nothing, old), new)
           = foldedWith(Nothing, stretch(log, FromBlock, e + 1))
    <3>1. foldedWith(Nothing, old \o new) = foldedWith(foldedWith(Nothing, old), new)
      BY <2>3, FoldOfJoin
    <3>2. QED
      BY <2>3, <3>1
  <2>9. log' = log
    OBVIOUS
  <2>10. QED
    BY <1>7, <2>4, <2>7, <2>8, <2>9 DEF HoldsTheChain
<1>11. QED
  BY <1>1, <1>8, <1>9, <1>10 DEF IndexerInv

LEMMA ReadsBountyKeeps ==
    ASSUME IndexerInv, ReadsBounty, UNCHANGED <<block, store, log, plan, fork>>
    PROVE  IndexerInv'
<1>1. PICK bounty : reader' = [reader EXCEPT !.pc = "rows", !.bounty = bounty]
  <2>1. CASE reader' = [reader EXCEPT !.pc = "rows", !.bounty = store.globalDefensePool]
    BY <2>1
  <2>2. CASE reader' = [reader EXCEPT !.pc = "rows"]
    <3>1. reader' = [reader EXCEPT !.pc = "rows", !.bounty = reader.bounty]
      BY <2>2 DEF IndexerInv, ReaderInPlace
    <3>2. QED
      BY <3>1
  <2>3. QED
    BY <2>1, <2>2 DEF ReadsBounty
<1>2. ReaderInPlace /\ HoldsTheChain
  BY DEF IndexerInv
<1>3. /\ reader' = [ pc |-> "rows", cursor |-> reader.cursor, target |-> reader.target,
                     bounty |-> bounty, left |-> reader.left ]
      /\ reader.pc = "bounty" /\ memory' = memory
  BY <1>1, <1>2 DEF ReaderInPlace, ReadsBounty
<1>4. /\ reader'.pc = "rows" /\ reader'.cursor = reader.cursor
      /\ reader'.target = reader.target
      /\ reader' = [ pc |-> reader'.pc, cursor |-> reader'.cursor, target |-> reader'.target,
                     bounty |-> reader'.bounty, left |-> reader'.left ]
  BY <1>3
<1>5. ReaderInPlace'
  BY <1>2, <1>3, <1>4 DEF ReaderInPlace
<1>6. QED
  BY <1>2, <1>3, <1>4, <1>5, ReaderTurns, AlikeItself DEF HoldsTheChain

(* What is read beside the log changes nothing the log says.               *)
Enriches(n, m, l, lobby, bounty) ==
    n = [m EXCEPT !.directory.lobbies[l] = enriched(@, lobby, bounty)]

LEMMA EnrichedSaysTheSame ==
    ASSUME NEW m, NEW n, NEW l, NEW lobby, NEW bounty,
           IsMemory(m), Enriches(n, m, l, lobby, bounty)
    PROVE  IsMemory(n) /\ Alike(n, m)
<1> DEFINE d == m.directory
           rows == [k \in known(d) |->
                       IF k = l THEN enriched(row(d, k), lobby, bounty) ELSE row(d, k)]
           c == [lobbies |-> rows, byPlayer |-> d.byPlayer]
<1>1. /\ m = [ledger |-> m.ledger, directory |-> d]
      /\ d = [lobbies |-> d.lobbies, byPlayer |-> d.byPlayer]
      /\ d.lobbies = [k \in known(d) |-> row(d, k)]
      /\ d.byPlayer = [w \in Addresses |-> d.byPlayer[w]]
      /\ \A k \in known(d) : IsRow(row(d, k))
  BY DEF IsMemory, IsDirectory
<1>2. [d.lobbies EXCEPT ![l] = enriched(@, lobby, bounty)] = rows
  BY <1>1 DEF row
<1>3. n = [ledger |-> m.ledger, directory |-> c]
  <2>1. n = [m EXCEPT !.directory = [d EXCEPT !.lobbies =
                [d.lobbies EXCEPT ![l] = enriched(@, lobby, bounty)]]]
    BY Zenon DEF Enriches
  <2>2. [d EXCEPT !.lobbies = rows] = c
    BY <1>1
  <2> HIDE DEF c, rows
  <2>3. n = [m EXCEPT !.directory = c]
    BY <1>2, <2>1, <2>2
  <2>4. QED
    BY <1>1, <2>3
<1>4. /\ n.ledger = m.ledger /\ n.directory = c /\ c.byPlayer = d.byPlayer
      /\ n = [ledger |-> n.ledger, directory |-> n.directory]
      /\ c = [lobbies |-> c.lobbies, byPlayer |-> c.byPlayer]
  <2>1. c.byPlayer = d.byPlayer /\ c = [lobbies |-> c.lobbies, byPlayer |-> c.byPlayer]
    OBVIOUS
  <2> HIDE DEF c
  <2>2. QED
    BY <1>3, <2>1
<1>5. /\ known(c) = known(d) /\ c.lobbies = [k \in known(c) |-> row(c, k)]
      /\ \A k \in known(d) :
            row(c, k) = IF k = l THEN enriched(row(d, k), lobby, bounty) ELSE row(d, k)
  BY DEF known, row
<1> HIDE DEF c
<1>6. ASSUME NEW r, IsRow(r)
      PROVE  /\ IsRow(enriched(r, lobby, bounty)) /\ SameRow(enriched(r, lobby, bounty), r)
             /\ SameRow(r, r)
  <2>1. PICK most, pool, drawn :
           /\ enriched(r, lobby, bounty) = [r EXCEPT !.maxPlayers = most, !.rewardPool = pool,
                                                     !.drawBounty = drawn]
           /\ drawn # Unread <=> r.drawBounty # Unread
    <3>1. PICK drawn : drawn = IF lobby.status = "OPEN" /\ bounty # Unread
                                  /\ r.drawBounty # Unread THEN bounty ELSE r.drawBounty
      OBVIOUS
    <3>2. PICK pool : pool = lobby.rewardPool
                             + IF lobby.status = "OPEN" THEN lobby.entryFeesCollected ELSE 0
      OBVIOUS
    <3>3. enriched(r, lobby, bounty)
             = [r EXCEPT !.maxPlayers = lobby.maxPlayers, !.rewardPool = pool,
                         !.drawBounty = drawn]
      BY <1>6, <3>1, <3>2 DEF enriched, IsRow
    <3>4. drawn # Unread <=> r.drawBounty # Unread
      BY <3>1
    <3>5. QED
      BY <3>3, <3>4, Zenon
  <2>2. enriched(r, lobby, bounty) =
           [ creator |-> r.creator, participants |-> r.participants, members |-> r.members,
             maxPlayers |-> most, rewardPool |-> pool, drawBounty |-> drawn,
             status |-> r.status, intercepted |-> r.intercepted,
             createdBlock |-> r.createdBlock, startedBlock |-> r.startedBlock,
             endedBlock |-> r.endedBlock ]
    BY <1>6, <2>1 DEF IsRow
  <2>3. QED
    BY <1>6, <2>1, <2>2 DEF IsRow, SameRow
<1>7. \A k \in known(c) : IsRow(row(c, k)) /\ SameRow(row(c, k), row(d, k))
  BY <1>1, <1>5, <1>6
<1>8. asLogged(c) = asLogged(d)
  BY <1>5, <1>7, LoggedAlike
<1>9. IsDirectory(c)
  BY <1>1, <1>4, <1>5, <1>7 DEF IsDirectory
<1>10. IsMemory(n)
  BY <1>4, <1>9 DEF IsMemory
<1>11. Alike(n, m)
  BY <1>4, <1>8 DEF Alike
<1>12. QED
  BY <1>10, <1>11

LEMMA ReadsRowKeeps ==
    ASSUME IndexerInv, ReadsRow, UNCHANGED <<block, store, log, plan, fork>>
    PROVE  IndexerInv'
<1>1. PICK l : /\ reader' = [reader EXCEPT !.left = @ \ {l}] /\ reader.pc = "rows"
               /\ \/ memory' = [memory EXCEPT !.directory.lobbies[l] =
                                    enriched(@, lobbyOf(l), reader.bounty)]
                  \/ memory' = memory
  BY DEF ReadsRow
<1>2. ReaderInPlace /\ HoldsTheChain
  BY DEF IndexerInv
<1>3. reader' = [ pc |-> "rows", cursor |-> reader.cursor, target |-> reader.target,
                  bounty |-> reader.bounty, left |-> reader.left \ {l} ]
  BY <1>1, <1>2 DEF ReaderInPlace
<1>4. /\ reader'.pc = "rows" /\ reader'.cursor = reader.cursor
      /\ reader'.target = reader.target
      /\ reader' = [ pc |-> reader'.pc, cursor |-> reader'.cursor, target |-> reader'.target,
                     bounty |-> reader'.bounty, left |-> reader'.left ]
  BY <1>3
<1>5. ReaderInPlace'
  BY <1>1, <1>2, <1>4 DEF ReaderInPlace
<1>6. IsMemory(memory') /\ Alike(memory', memory)
  <2>1. IsMemory(memory)
    BY <1>2 DEF HoldsTheChain
  <2>2. CASE memory' = [memory EXCEPT !.directory.lobbies[l] =
                            enriched(@, lobbyOf(l), reader.bounty)]
    <3>1. Enriches(memory', memory, l, lobbyOf(l), reader.bounty)
      BY <2>2, Zenon DEF Enriches
    <3>2. QED
      BY <2>1, <3>1, EnrichedSaysTheSame
  <2>3. QED
    BY <1>1, <2>1, <2>2, AlikeItself
<1>7. QED
  BY <1>1, <1>4, <1>5, <1>6, ReaderTurns

LEMMA SleepsKeeps ==
    ASSUME IndexerInv, Sleeps \/ Fails, UNCHANGED <<block, store, log, plan, fork>>
    PROVE  IndexerInv'
<1>1. reader' = [reader EXCEPT !.pc = "asleep", !.target = 0, !.bounty = Unread, !.left = {}]
      /\ memory' = memory
  BY DEF Sleeps, Fails, sleeps
<1>2. ReaderInPlace /\ HoldsTheChain
  BY DEF IndexerInv
<1>3. reader' = [ pc |-> "asleep", cursor |-> reader.cursor, target |-> 0,
                  bounty |-> Unread, left |-> {} ]
  BY <1>1, <1>2 DEF ReaderInPlace
<1>4. /\ reader'.pc = "asleep" /\ reader'.cursor = reader.cursor
      /\ reader' = [ pc |-> reader'.pc, cursor |-> reader'.cursor, target |-> reader'.target,
                     bounty |-> reader'.bounty, left |-> reader'.left ]
  BY <1>3
<1>5. ReaderInPlace'
  BY <1>2, <1>4 DEF ReaderInPlace
<1>6. QED
  BY <1>1, <1>2, <1>4, <1>5, ReaderTurns, AlikeItself DEF HoldsTheChain

(* A restart forgets the cursor and the memory together.                   *)
LEMMA RestartsKeeps ==
    ASSUME IndexerInv, Restarts, UNCHANGED <<block, store, log, plan, fork>>
    PROVE  IndexerInv'
<1>1. reader' = [pc |-> "asleep", cursor |-> FromBlock, target |-> 0, bounty |-> Unread, left |-> {}]
      /\ memory' = Nothing
  BY DEF Restarts, restarted, Asleep
<1>2. block \in Nat /\ Genesis <= block /\ Dated(log, block) /\ NothingReadIsUndone
  BY DEF IndexerInv
<1>3. FromBlock \in Nat
  BY IndexerAssumption
<1>4. /\ reader'.pc = "asleep" /\ reader'.cursor = FromBlock
      /\ reader' = [ pc |-> reader'.pc, cursor |-> reader'.cursor, target |-> reader'.target,
                     bounty |-> reader'.bounty, left |-> reader'.left ]
  BY <1>1
<1>5. ReaderInPlace'
  BY <1>3, <1>4 DEF ReaderInPlace
<1>6. NothingReadIsUndone'
  BY <1>2, <1>4 DEF NothingReadIsUndone
<1>7. HoldsTheChain'
  <2>1. foldedWith(Nothing, stretch(log, FromBlock, FromBlock)) = Nothing
    BY <1>2, AtTheFirstBlock
  <2>2. QED
    BY <1>1, <1>4, <2>1, NothingIsMemory, AlikeItself DEF HoldsTheChain
<1>8. QED
  BY <1>2, <1>5, <1>6, <1>7 DEF IndexerInv

LEMMA IndexerNextKeeps ==
    ASSUME IndexerInv, [IndexerNext]_indexerVars
    PROVE  IndexerInv'
<1>1. CASE Reads
  BY <1>1, WakesKeeps, FoldsKeeps, ReadsBountyKeeps, ReadsRowKeeps, SleepsKeeps,
     RestartsKeeps, Zenon DEF Reads
<1>2. CASE UNCHANGED indexerVars
  BY <1>2 DEF indexerVars, IndexerInv, ReaderInPlace, NothingReadIsUndone, HoldsTheChain
<1>3. QED
  BY <1>1, <1>2, TransactedKeeps, MinedKeeps, ReorganisedKeeps DEF IndexerNext

(* Whatever windows the log was read in, whatever read failed, wherever    *)
(* the process was restarted and whatever the chain undid within the       *)
(* confirmations, what the indexer holds is the fold of the canonical log  *)
(* up to its cursor, every event once: for any log, window, first block    *)
(* and number of confirmations.                                            *)
THEOREM TheIndexerReplaysTheChain == IndexerSpec => []FoldIsTheChainReplayed
<1>1. IndexerInit => IndexerInv
  BY IndexerInitHolds
<1>2. IndexerInv /\ [IndexerNext]_indexerVars => IndexerInv'
  BY IndexerNextKeeps
<1>3. IndexerInv => FoldIsTheChainReplayed
  <2> SUFFICES ASSUME IndexerInv PROVE FoldIsTheChainReplayed
    OBVIOUS
  <2>1. reader.cursor - 1 + 1 = reader.cursor
    BY DEF IndexerInv, ReaderInPlace
  <2>2. eventsOf(FromBlock, reader.cursor - 1) = stretch(log, FromBlock, reader.cursor)
    BY <2>1, EventsOf DEF eventsAreAStretch
  <2>3. QED
    BY <2>2 DEF IndexerInv, HoldsTheChain, Alike, FoldIsTheChainReplayed
<1>4. QED
  BY <1>1, <1>2, <1>3, PTL DEF IndexerSpec

=============================================================================
