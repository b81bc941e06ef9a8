------------------------------ MODULE SumProofs -----------------------------
(***************************************************************************)
(* What the sum over a finite set returns: the lemmas the money proofs     *)
(* keep needing about MapThenSumSet; and, at the end, the few facts of     *)
(* integer arithmetic every schedule rests on.                             *)
(*                                                                         *)
(* The library defines it as a fold that picks elements by CHOOSE, that    *)
(* is, by a recursive function over the subsets of the set.  A statement   *)
(* about it is proved by taking the smallest subset it fails on, which     *)
(* strict inclusion, well founded on finite sets, always has.              *)
(***************************************************************************)
EXTENDS FiniteSetsExt, Integers, FiniteSetTheorems, WellFoundedInduction, TLAPS

(* The sum of the values of f on S.                                        *)
Total(f, S) == MapThenSumSet(LAMBDA x : f[x], S)

someOf(s) == CHOOSE x \in s : TRUE

(* The recursive function the library's fold stands for.                   *)
IsTally(h, f, S) ==
    h = [s \in SUBSET S |->
            IF s = {} THEN 0 ELSE f[someOf(s)] + h[s \ {someOf(s)}]]

LEMMA SmallestBadSet ==
    ASSUME NEW S, IsFiniteSet(S), NEW Bad \in SUBSET SUBSET S, Bad # {}
    PROVE  \E T \in Bad : \A U \in SUBSET T : U # T => U \notin Bad
<1>1. SUBSET S = FiniteSubsetsOf(S)
  BY FS_FiniteSubsetsOfFinite
<1>2. IsWellFoundedOn(StrictSubsetOrdering(S), FiniteSubsetsOf(S))
  BY FS_StrictSubsetOrderingWellFounded
<1>3. PICK T \in Bad : \A U \in Bad : ~(<<U, T>> \in StrictSubsetOrdering(S))
  BY <1>1, <1>2, WFMin
<1>4. ASSUME NEW U \in SUBSET T, U # T PROVE U \notin Bad
  BY <1>3, <1>4 DEF StrictSubsetOrdering
<1>5. QED
  BY <1>4

LEMMA SomeOf ==
    ASSUME NEW s, s # {}
    PROVE  someOf(s) \in s
BY DEF someOf

-----------------------------------------------------------------------------
(* The fold has a value.                                                   *)

LEMMA TalliesAgree ==
    ASSUME NEW S, IsFiniteSet(S), NEW f, NEW U \in SUBSET S, NEW V \in SUBSET S,
           NEW g, IsTally(g, f, U), NEW h, IsTally(h, f, V)
    PROVE  \A s \in SUBSET (U \cap V) : g[s] = h[s]
<1> DEFINE Bad == {s \in SUBSET (U \cap V) : g[s] # h[s]}
<1> SUFFICES ASSUME Bad # {} PROVE FALSE
  OBVIOUS
<1>1. Bad \in SUBSET SUBSET S
  OBVIOUS
<1>2. PICK T \in Bad : \A W \in SUBSET T : W # T => W \notin Bad
  <2> HIDE DEF Bad
  <2> QED BY <1>1, SmallestBadSet
<1>3. T \in SUBSET U /\ T \in SUBSET V /\ g[T] # h[T]
  BY <1>2
<1>4. T # {}
  BY <1>3 DEF IsTally
<1>5. someOf(T) \in T
  BY <1>4, SomeOf
<1> DEFINE R == T \ {someOf(T)}
<1>6. R \in SUBSET T /\ R # T
  BY <1>5
<1>7. g[R] = h[R]
  BY <1>2, <1>3, <1>6
<1>8. g[T] = f[someOf(T)] + g[R]
  BY <1>3, <1>4 DEF IsTally
<1>9. h[T] = f[someOf(T)] + h[R]
  BY <1>3, <1>4 DEF IsTally
<1>10. QED
  BY <1>3, <1>7, <1>8, <1>9

LEMMA TallyExists ==
    ASSUME NEW S, IsFiniteSet(S), NEW f
    PROVE  \E h : IsTally(h, f, S)
<1> DEFINE Bad == {s \in SUBSET S : ~\E h : IsTally(h, f, s)}
<1> SUFFICES ASSUME Bad # {} PROVE FALSE
  OBVIOUS
<1>1. Bad \in SUBSET SUBSET S
  OBVIOUS
<1>2. PICK T \in Bad : \A U \in SUBSET T : U # T => U \notin Bad
  <2> HIDE DEF Bad
  <2> QED BY <1>1, SmallestBadSet
<1>3. T \in SUBSET S /\ ~\E h : IsTally(h, f, T)
  BY <1>2
<1> DEFINE tally(U) == CHOOSE h : IsTally(h, f, U)
<1>4. ASSUME NEW U \in SUBSET T, U # T
      PROVE  IsTally(tally(U), f, U)
  <2>1. \E h : IsTally(h, f, U)
    BY <1>2, <1>3, <1>4
  <2>2. QED
    BY <2>1
<1> DEFINE a == someOf(T)
           h == [s \in SUBSET T |->
                    IF s = {} THEN 0
                    ELSE IF s = T THEN f[a] + tally(T \ {a})[T \ {a}] ELSE tally(s)[s]]
<1> HIDE DEF tally, Bad
<1>5. ASSUME NEW s \in SUBSET T, s # {}
      PROVE  h[s] = f[someOf(s)] + h[s \ {someOf(s)}]
  <2> DEFINE b == someOf(s)
             r == s \ {b}
  <2>1. b \in s
    BY <1>5, SomeOf
  <2>2. r \in SUBSET T /\ r # T /\ r # s
    BY <2>1
  <2>3. h[r] = tally(r)[r]
    <3>1. CASE r = {}
      <4>1. IsTally(tally({}), f, {})
        BY <1>4, <2>2, <3>1
      <4>2. tally({})[{}] = 0
        BY <4>1 DEF IsTally
      <4>3. QED
        BY <2>2, <3>1, <4>2
    <3>2. CASE r # {}
      BY <2>2, <3>2
    <3>3. QED
      BY <3>1, <3>2
  <2>4. CASE s = T
    BY <1>5, <2>3, <2>4
  <2>5. CASE s # T
    <3>1. IsTally(tally(s), f, s) /\ IsTally(tally(r), f, r)
      BY <1>4, <2>2, <2>5
    <3>2. tally(s)[s] = f[b] + tally(s)[r]
      BY <1>5, <2>1, <3>1 DEF IsTally
    <3>3. tally(s)[r] = tally(r)[r]
      <4>1. s \in SUBSET S /\ r \in SUBSET S /\ r \in SUBSET (s \cap r)
        BY <1>3
      <4> HIDE DEF r, h, a, b
      <4>2. \A q \in SUBSET (s \cap r) : tally(s)[q] = tally(r)[q]
        BY <3>1, <4>1, TalliesAgree
      <4>3. QED
        BY <4>1, <4>2
    <3>4. h[s] = tally(s)[s]
      BY <1>5, <2>5
    <3>5. QED
      BY <2>3, <3>2, <3>3, <3>4
  <2>6. QED
    BY <2>4, <2>5
<1>6. h[{}] = 0
  OBVIOUS
<1>7. h = [s \in SUBSET T |->
              IF s = {} THEN 0 ELSE f[someOf(s)] + h[s \ {someOf(s)}]]
  <2> DEFINE k == [s \in SUBSET T |->
                      IF s = {} THEN 0 ELSE f[someOf(s)] + h[s \ {someOf(s)}]]
  <2>1. \A s \in SUBSET T : h[s] = k[s]
    BY <1>5, <1>6
  <2>2. h = [s \in SUBSET T |-> h[s]] /\ k = [s \in SUBSET T |-> k[s]]
    OBVIOUS
  <2> HIDE DEF h, k
  <2>3. h = k
    BY <2>1, <2>2
  <2>4. QED
    BY <2>3 DEF k
<1> HIDE DEF h
<1>8. IsTally(h, f, T)
  BY <1>7 DEF IsTally
<1>9. QED
  BY <1>3, <1>8

LEMMA TotalDef ==
    ASSUME NEW f, NEW S
    PROVE  Total(f, S) = (CHOOSE h : IsTally(h, f, S))[S]
BY DEF Total, MapThenSumSet, MapThenFoldSet, IsTally, someOf

LEMMA TotalTally ==
    ASSUME NEW S, IsFiniteSet(S), NEW f
    PROVE  \E h : IsTally(h, f, S) /\ \A s \in SUBSET S : Total(f, s) = h[s]
<1>1. PICK h : IsTally(h, f, S)
  BY TallyExists
<1>2. ASSUME NEW s \in SUBSET S
      PROVE  Total(f, s) = h[s]
  <2> DEFINE g == CHOOSE k : IsTally(k, f, s)
  <2>1. IsFiniteSet(s)
    BY FS_Subset
  <2>2. IsTally(g, f, s)
    <3>1. \E k : IsTally(k, f, s)
      BY <2>1, TallyExists
    <3>2. QED
      BY <3>1
  <2>3. Total(f, s) = g[s]
    BY TotalDef
  <2> HIDE DEF g
  <2>4. g[s] = h[s]
    <3>1. s \in SUBSET (s \cap S) /\ S \in SUBSET S
      OBVIOUS
    <3>2. QED
      BY <1>1, <2>2, <3>1, TalliesAgree
  <2>5. QED
    BY <2>3, <2>4
<1>3. QED
  BY <1>1, <1>2

-----------------------------------------------------------------------------
(* What it adds up to.                                                     *)

LEMMA TotalUnfolds ==
    ASSUME NEW S, IsFiniteSet(S), NEW f
    PROVE  /\ Total(f, {}) = 0
           /\ S # {} => Total(f, S) = f[someOf(S)] + Total(f, S \ {someOf(S)})
<1>1. PICK h : IsTally(h, f, S) /\ \A s \in SUBSET S : Total(f, s) = h[s]
  BY TotalTally
<1>2. h[{}] = 0 /\ Total(f, {}) = h[{}]
  BY <1>1 DEF IsTally
<1>3. ASSUME S # {}
      PROVE  Total(f, S) = f[someOf(S)] + Total(f, S \ {someOf(S)})
  <2>1. h[S] = f[someOf(S)] + h[S \ {someOf(S)}]
    BY <1>1, <1>3 DEF IsTally
  <2>2. Total(f, S) = h[S] /\ Total(f, S \ {someOf(S)}) = h[S \ {someOf(S)}]
    BY <1>1
  <2>3. QED
    BY <2>1, <2>2
<1>4. QED
  BY <1>2, <1>3

LEMMA TotalIsInt ==
    ASSUME NEW S, IsFiniteSet(S), NEW f, \A x \in S : f[x] \in Int
    PROVE  Total(f, S) \in Int
<1> DEFINE Bad == {s \in SUBSET S : Total(f, s) \notin Int}
<1>1. Bad \in SUBSET SUBSET S
  OBVIOUS
<1>2. CASE Bad = {}
  BY <1>2
<1>3. CASE Bad # {}
  <2>1. PICK T \in Bad : \A U \in SUBSET T : U # T => U \notin Bad
    <3> HIDE DEF Bad
    <3> QED BY <1>1, <1>3, SmallestBadSet
  <2>2. IsFiniteSet(T) /\ T \in SUBSET S
    BY FS_Subset
  <2>3. T # {}
    BY <2>2, TotalUnfolds
  <2>4. someOf(T) \in T /\ Total(f, T) = f[someOf(T)] + Total(f, T \ {someOf(T)})
    BY <2>2, <2>3, SomeOf, TotalUnfolds
  <2>5. Total(f, T \ {someOf(T)}) \in Int
    BY <2>1, <2>2, <2>4
  <2>6. Total(f, T) \in Int
    BY <2>2, <2>4, <2>5
  <2>7. QED
    BY <2>6
<1>4. QED
  BY <1>2, <1>3

(* Any element may be the first one taken.                                 *)
LEMMA TotalTakes ==
    ASSUME NEW S, IsFiniteSet(S), NEW f, \A x \in S : f[x] \in Int, NEW a \in S
    PROVE  Total(f, S) = f[a] + Total(f, S \ {a})
<1> DEFINE Bad == {s \in SUBSET S : \E x \in s : Total(f, s) # f[x] + Total(f, s \ {x})}
<1>1. Bad \in SUBSET SUBSET S
  OBVIOUS
<1>2. CASE Bad = {}
  BY <1>2
<1>3. CASE Bad # {}
  <2>1. PICK T \in Bad : \A U \in SUBSET T : U # T => U \notin Bad
    <3> HIDE DEF Bad
    <3> QED BY <1>1, <1>3, SmallestBadSet
  <2>2. T \in SUBSET S
    OBVIOUS
  <2>3. PICK x \in T : Total(f, T) # f[x] + Total(f, T \ {x})
    OBVIOUS
  <2> DEFINE b == someOf(T)
  <2>4. b \in T /\ Total(f, T) = f[b] + Total(f, T \ {b})
    <3>1. IsFiniteSet(T)
      BY <2>2, FS_Subset
    <3>2. QED
      BY <2>3, <3>1, SomeOf, TotalUnfolds
  <2>5. x # b
    BY <2>3, <2>4
  <2>6. Total(f, T \ {b}) = f[x] + Total(f, (T \ {b}) \ {x})
    <3>1. T \ {b} \in SUBSET T /\ T \ {b} # T /\ x \in T \ {b}
      BY <2>4, <2>5
    <3> HIDE DEF b
    <3>2. QED
      BY <2>1, <2>2, <3>1
  <2>7. Total(f, T \ {x}) = f[b] + Total(f, (T \ {x}) \ {b})
    <3>1. T \ {x} \in SUBSET T /\ T \ {x} # T /\ b \in T \ {x}
      BY <2>4, <2>5
    <3> HIDE DEF b
    <3>2. QED
      BY <2>1, <2>2, <3>1
  <2> DEFINE R == (T \ {b}) \ {x}
  <2>8. R = (T \ {x}) \ {b} /\ R \in SUBSET S
    BY <2>2
  <2>9. Total(f, R) \in Int /\ f[x] \in Int /\ f[b] \in Int
    <3>1. IsFiniteSet(R) /\ \A y \in R : f[y] \in Int
      BY <2>8, FS_Subset
    <3>2. QED
      BY <2>2, <2>4, <3>1, TotalIsInt
  <2> HIDE DEF R, b
  <2>10. Total(f, T) = f[b] + (f[x] + Total(f, R)) /\ Total(f, T \ {x}) = f[b] + Total(f, R)
    BY <2>4, <2>6, <2>7, <2>8 DEF R
  <2>11. Total(f, T) = f[x] + Total(f, T \ {x})
    BY <2>9, <2>10
  <2>12. QED
    BY <2>3, <2>11
<1>4. QED
  BY <1>2, <1>3

(* Only the values on the set count.                                       *)
LEMMA TotalOfEqual ==
    ASSUME NEW S, IsFiniteSet(S), NEW f, NEW g, \A x \in S : f[x] = g[x]
    PROVE  Total(f, S) = Total(g, S)
<1> DEFINE Bad == {s \in SUBSET S : Total(f, s) # Total(g, s)}
<1>1. Bad \in SUBSET SUBSET S
  OBVIOUS
<1>2. CASE Bad = {}
  BY <1>2
<1>3. CASE Bad # {}
  <2>1. PICK T \in Bad : \A U \in SUBSET T : U # T => U \notin Bad
    <3> HIDE DEF Bad
    <3> QED BY <1>1, <1>3, SmallestBadSet
  <2>2. IsFiniteSet(T) /\ T \in SUBSET S
    BY FS_Subset
  <2>3. T # {}
    BY <2>2, TotalUnfolds
  <2>4. /\ someOf(T) \in T /\ Total(f, T) = f[someOf(T)] + Total(f, T \ {someOf(T)})
        /\ Total(g, T) = g[someOf(T)] + Total(g, T \ {someOf(T)})
    BY <2>2, <2>3, SomeOf, TotalUnfolds
  <2>5. Total(f, T \ {someOf(T)}) = Total(g, T \ {someOf(T)})
    BY <2>1, <2>2, <2>4
  <2>6. Total(f, T) = Total(g, T)
    BY <2>2, <2>4, <2>5
  <2>7. QED
    BY <2>6
<1>4. QED
  BY <1>2, <1>3

LEMMA TotalNonNegative ==
    ASSUME NEW S, IsFiniteSet(S), NEW f, \A x \in S : f[x] \in Nat
    PROVE  Total(f, S) \in Nat
<1> DEFINE Bad == {s \in SUBSET S : Total(f, s) \notin Nat}
<1>1. Bad \in SUBSET SUBSET S
  OBVIOUS
<1>2. CASE Bad = {}
  BY <1>2
<1>3. CASE Bad # {}
  <2>1. PICK T \in Bad : \A U \in SUBSET T : U # T => U \notin Bad
    <3> HIDE DEF Bad
    <3> QED BY <1>1, <1>3, SmallestBadSet
  <2>2. IsFiniteSet(T) /\ T \in SUBSET S
    BY FS_Subset
  <2>3. T # {}
    BY <2>2, TotalUnfolds
  <2>4. someOf(T) \in T /\ Total(f, T) = f[someOf(T)] + Total(f, T \ {someOf(T)})
    BY <2>2, <2>3, SomeOf, TotalUnfolds
  <2>5. Total(f, T \ {someOf(T)}) \in Nat
    BY <2>1, <2>2, <2>4
  <2>6. Total(f, T) \in Nat
    BY <2>2, <2>4, <2>5
  <2>7. QED
    BY <2>6
<1>4. QED
  BY <1>2, <1>3

LEMMA TotalAdds ==
    ASSUME NEW S, IsFiniteSet(S), NEW f, NEW a, a \notin S, \A x \in S \cup {a} : f[x] \in Int
    PROVE  Total(f, S \cup {a}) = f[a] + Total(f, S)
<1>1. IsFiniteSet(S \cup {a}) /\ a \in S \cup {a} /\ (S \cup {a}) \ {a} = S
  BY FS_AddElement
<1>2. QED
  BY <1>1, TotalTakes

(* One value changed.                                                      *)
OneMoved(S, f, g, a) ==
    /\ IsFiniteSet(S) /\ a \in S
    /\ \A x \in S : f[x] \in Int /\ g[x] \in Int
    /\ \A x \in S : x # a => f[x] = g[x]

LEMMA TotalMoves ==
    ASSUME NEW S, NEW f, NEW g, NEW a, OneMoved(S, f, g, a)
    PROVE  Total(g, S) = Total(f, S) - f[a] + g[a]
<1> USE DEF OneMoved
<1> DEFINE R == S \ {a}
<1>1. IsFiniteSet(R) /\ \A x \in R : f[x] = g[x] /\ f[x] \in Int
  BY FS_RemoveElement
<1>2. Total(f, R) = Total(g, R) /\ Total(f, R) \in Int
  BY <1>1, TotalOfEqual, TotalIsInt
<1>3. Total(f, S) = f[a] + Total(f, R) /\ Total(g, S) = g[a] + Total(g, R)
  BY TotalTakes
<1>4. f[a] \in Int /\ g[a] \in Int
  OBVIOUS
<1> HIDE DEF R
<1>5. QED
  BY <1>2, <1>3, <1>4

(* Elements that add nothing may be left out.                              *)
LEMMA TotalIgnoresZeros ==
    ASSUME NEW S, IsFiniteSet(S), NEW f, \A x \in S : f[x] \in Int,
           NEW R \in SUBSET S, \A x \in S \ R : f[x] = 0
    PROVE  Total(f, S) = Total(f, R)
<1> DEFINE Bad == {s \in SUBSET S : R \subseteq s /\ Total(f, s) # Total(f, R)}
<1>1. Bad \in SUBSET SUBSET S
  OBVIOUS
<1>2. CASE Bad = {}
  BY <1>2
<1>3. CASE Bad # {}
  <2>1. PICK T \in Bad : \A U \in SUBSET T : U # T => U \notin Bad
    <3> HIDE DEF Bad
    <3> QED BY <1>1, <1>3, SmallestBadSet
  <2>2. IsFiniteSet(T) /\ T \in SUBSET S /\ R \in SUBSET T /\ T # R
    BY FS_Subset
  <2>3. PICK a \in T : a \notin R
    BY <2>2
  <2>4. Total(f, T) = f[a] + Total(f, T \ {a}) /\ f[a] = 0
    BY <2>2, <2>3, TotalTakes
  <2>5. Total(f, T \ {a}) = Total(f, R)
    BY <2>1, <2>2, <2>3
  <2>6. Total(f, R) \in Int
    <3>1. IsFiniteSet(R) /\ \A x \in R : f[x] \in Int
      BY FS_Subset
    <3>2. QED
      BY <3>1, TotalIsInt
  <2>7. Total(f, T) = Total(f, R)
    BY <2>4, <2>5, <2>6
  <2>8. QED
    BY <2>7
<1>4. QED
  BY <1>2, <1>3

(* The function a sum over a projection stands for gives its total.        *)
LEMMA TallyIsTotal ==
    ASSUME NEW S, IsFiniteSet(S), NEW f, NEW g, IsTally(g, f, S)
    PROVE  g[S] = Total(f, S)
<1>1. PICK h : IsTally(h, f, S) /\ \A s \in SUBSET S : Total(f, s) = h[s]
  BY TotalTally
<1>2. S \in SUBSET S /\ S \in SUBSET (S \cap S)
  OBVIOUS
<1>3. IsTally(h, f, S)
  BY <1>1
<1>4. g[S] = h[S]
  BY <1>2, <1>3, TalliesAgree
<1>5. QED
  BY <1>1, <1>4

(* A sum of sums.                                                          *)
LEMMA TotalSplits ==
    ASSUME NEW S, IsFiniteSet(S), NEW f, NEW g, NEW h,
           \A x \in S : f[x] \in Int /\ g[x] \in Int /\ h[x] = f[x] + g[x]
    PROVE  Total(h, S) = Total(f, S) + Total(g, S)
<1> DEFINE Bad == {s \in SUBSET S : Total(h, s) # Total(f, s) + Total(g, s)}
<1>1. Bad \in SUBSET SUBSET S
  OBVIOUS
<1>2. CASE Bad = {}
  BY <1>2
<1>3. CASE Bad # {}
  <2>1. PICK T \in Bad : \A U \in SUBSET T : U # T => U \notin Bad
    <3> HIDE DEF Bad
    <3> QED BY <1>1, <1>3, SmallestBadSet
  <2>2. IsFiniteSet(T) /\ T \in SUBSET S
    BY FS_Subset
  <2>3. T # {}
    <3>1. Total(f, {}) = 0 /\ Total(g, {}) = 0 /\ Total(h, {}) = 0
      BY FS_EmptySet, TotalUnfolds
    <3>2. Total(h, T) # Total(f, T) + Total(g, T)
      OBVIOUS
    <3>3. ASSUME T = {} PROVE FALSE
      <4>1. Total(f, T) = 0 /\ Total(g, T) = 0 /\ Total(h, T) = 0
        BY <3>1, <3>3
      <4>2. QED
        BY <3>2, <4>1
    <3>4. QED
      BY <3>3
  <2> DEFINE a == someOf(T)
             R == T \ {someOf(T)}
  <2>4. a \in T /\ R \in SUBSET T /\ R # T
    BY <2>3, SomeOf
  <2>5. /\ Total(f, T) = f[a] + Total(f, R) /\ Total(g, T) = g[a] + Total(g, R)
        /\ Total(h, T) = h[a] + Total(h, R)
    BY <2>2, <2>3, TotalUnfolds
  <2>6. Total(h, R) = Total(f, R) + Total(g, R)
    BY <2>1, <2>2, <2>4
  <2>7. Total(f, R) \in Int /\ Total(g, R) \in Int
    <3>1. IsFiniteSet(R) /\ \A x \in R : f[x] \in Int /\ g[x] \in Int
      BY <2>2, <2>4, FS_Subset
    <3>2. QED
      BY <3>1, TotalIsInt
  <2>8. f[a] \in Int /\ g[a] \in Int /\ h[a] = f[a] + g[a]
    BY <2>2, <2>4
  <2> HIDE DEF a, R
  <2>9. Total(h, T) = Total(f, T) + Total(g, T)
    BY <2>5, <2>6, <2>7, <2>8
  <2>10. QED
    BY <2>9
<1>4. QED
  BY <1>2, <1>3

LEMMA TotalOfZeros ==
    ASSUME NEW S, IsFiniteSet(S), NEW f, \A x \in S : f[x] = 0
    PROVE  Total(f, S) = 0
<1>1. {} \in SUBSET S /\ \A x \in S : f[x] \in Int
  OBVIOUS
<1>2. Total(f, S) = Total(f, {})
  BY <1>1, TotalIgnoresZeros
<1>3. QED
  BY <1>2, TotalUnfolds

LEMMA TotalOfOne ==
    ASSUME NEW S, IsFiniteSet(S), NEW f, NEW a \in S, f[a] \in Int,
           \A x \in S : x # a => f[x] = 0
    PROVE  Total(f, S) = f[a]
<1>1. \A x \in S : f[x] \in Int
  OBVIOUS
<1>2. IsFiniteSet(S \ {a}) /\ \A x \in S \ {a} : f[x] = 0
  BY FS_RemoveElement
<1>3. Total(f, S \ {a}) = 0
  BY <1>2, TotalOfZeros
<1>4. Total(f, S) = f[a] + Total(f, S \ {a})
  BY <1>1, TotalTakes
<1>5. QED
  BY <1>3, <1>4

-----------------------------------------------------------------------------
(* The least of a set of numbers: what fails somewhere fails first there.  *)

LEMMA LeastNumber ==
    ASSUME NEW S \in SUBSET Nat, S # {}
    PROVE  Min(S) \in S /\ \A x \in S : Min(S) <= x
<1>1. PICK k : k \in S /\ k \in Nat
  OBVIOUS
<1> DEFINE Bad == {T \in SUBSET (0 .. k) : \E m \in S : T = 0 .. m}
<1>2. IsFiniteSet(0 .. k) /\ Bad \in SUBSET SUBSET (0 .. k)
  BY <1>1, FS_Interval
<1>3. 0 .. k \in Bad
  BY <1>1
<1>4. \E T \in Bad : \A U \in SUBSET T : U # T => U \notin Bad
  <2>1. PICK bad, all : bad = Bad /\ all = 0 .. k
    OBVIOUS
  <2> HIDE DEF Bad
  <2>2. IsFiniteSet(all) /\ bad \in SUBSET SUBSET all /\ bad # {}
    BY <1>2, <1>3, <2>1
  <2>3. \E T \in bad : \A U \in SUBSET T : U # T => U \notin bad
    BY <2>2, SmallestBadSet, Zenon
  <2>4. QED
    BY <2>1, <2>3
<1>5. PICK T \in Bad : \A U \in SUBSET T : U # T => U \notin Bad
  BY <1>4
<1>6. PICK m \in S : T = 0 .. m /\ 0 .. m \in SUBSET (0 .. k)
  BY <1>5
<1>7. ASSUME NEW x \in S, x < m
      PROVE  FALSE
  <2>1. x \in Nat /\ m \in Nat
    OBVIOUS
  <2>2. 0 .. x \in SUBSET (0 .. m) /\ m \in 0 .. m /\ m \notin 0 .. x
    BY <1>7, <2>1
  <2>3. 0 .. x \in SUBSET T /\ 0 .. x # T /\ 0 .. x \in Bad
    BY <1>6, <1>7, <2>2
  <2>4. QED
    BY <1>5, <2>3
<1>8. \E y \in S : \A x \in S : y =< x
  BY <1>6, <1>7
<1>9. QED
  BY <1>8 DEF Min

-----------------------------------------------------------------------------
(* Division and products.                                                  *)

LEMMA DivFacts ==
    ASSUME NEW a \in Nat, NEW n \in Nat \ {0}
    PROVE  /\ a \div n \in Nat
           /\ (a \div n) * n <= a
           /\ a < (a \div n) * n + n
OBVIOUS

LEMMA ModFacts ==
    ASSUME NEW a \in Nat, NEW n \in Nat \ {0}
    PROVE  a % n \in 0 .. (n - 1) /\ (a < n => a % n = a)
OBVIOUS

LEMMA ProductsOfNats ==
    ASSUME NEW a \in Nat, NEW b \in Nat
    PROVE  a * b \in Nat
OBVIOUS

LEMMA ProductsOrder ==
    ASSUME NEW a \in Nat, NEW b \in Int, NEW n \in Nat \ {0}, a * n < b * n
    PROVE  a < b
OBVIOUS

=============================================================================
