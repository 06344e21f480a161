------------------------------- MODULE DataLemmas -------------------------------
(***************************************************************************)
(* Facts about naturals, sums, sequences and paths that the proofs of      *)
(* several components need, about no component of its own.                 *)
(***************************************************************************)
EXTENDS Integers, Sequences, FiniteSets, SequenceTheorems, FiniteSetTheorems,
        WellFoundedInduction, TLAPS

-------------------------------------------------------------------------------
(***************************************************************************)
(* Induction.  The theorems of the library have the property as an         *)
(* operator, which none of the provers can instantiate; said of a set      *)
(* instead, the property is a term, and the smallest element of a set of   *)
(* naturals comes from WFMin.                                              *)
(***************************************************************************)
LEMMA SmallestElement ==
  ASSUME NEW T, T \subseteq Nat, T # {}
  PROVE  \E n \in T : \A m \in T : n <= m
<1>1. PICK n \in T : \A m \in T : ~ (<<m, n>> \in OpToRel(<, Nat))
  BY NatLessThanWellFounded, WFMin
<1>2. \A m \in T : ~ (m < n)
  BY <1>1 DEF OpToRel
<1>. QED
  BY <1>2

LEMMA InductionUpTo ==
  ASSUME NEW n \in Nat, NEW T, 0 \in T, \A i \in 0..(n - 1) : i \in T => i + 1 \in T
  PROVE  \A i \in 0..n : i \in T
<1>. DEFINE U == {i \in 0..n : i \notin T}
<1>. SUFFICES ASSUME U # {} PROVE FALSE
  OBVIOUS
<1>1. U \subseteq Nat
  OBVIOUS
<1>. HIDE DEF U
<1>2. PICK k \in U : \A m \in U : k <= m
  BY <1>1, SmallestElement
<1>3. k \in 0..n /\ k \notin T
  BY DEF U
<1>4. /\ k - 1 \in 0..(n - 1) /\ (k - 1) + 1 = k
      /\ ~ (k <= k - 1)
  BY <1>3
<1>5. k - 1 \in T
  BY <1>2, <1>4 DEF U
<1>. QED
  BY <1>3, <1>4, <1>5

-------------------------------------------------------------------------------
(***************************************************************************)
(* Sums over finite sets, as folds define them: a function on sets that    *)
(* adds one element after the other, the one CHOOSE takes first.           *)
(***************************************************************************)
Small(S, n) == {s \in SUBSET S : IsFiniteSet(s) /\ Cardinality(s) <= n}

\* f sums g over the sets in U.
IsSum(f, g, U) ==
  f = [s \in U |-> IF s = {} THEN 0
                   ELSE g[CHOOSE x \in s : TRUE] + f[s \ {CHOOSE x \in s : TRUE}]]

SumIs(v, g, S) == \E f \in [SUBSET S -> Int] : IsSum(f, g, SUBSET S) /\ v = f[S]

Values(g, S) == \A x \in S : g[x] \in Int

LEMMA SmallNone ==
  ASSUME NEW S
  PROVE  Small(S, 0) = {{}}
BY FS_EmptySet, FS_CardinalityType DEF Small

LEMMA SmallLess ==
  ASSUME NEW S, NEW n \in Nat, NEW s \in Small(S, n + 1)
  PROVE  /\ \A x \in s : x \in S /\ s \ {x} \in Small(S, n)
         /\ s # {} => (CHOOSE x \in s : TRUE) \in s
         /\ s \subseteq S
<1>1. ASSUME NEW x \in s PROVE x \in S /\ s \ {x} \in Small(S, n)
  <2>1. s \subseteq S /\ IsFiniteSet(s) /\ Cardinality(s) <= n + 1
    BY DEF Small
  <2>2. IsFiniteSet(s \ {x}) /\ Cardinality(s \ {x}) = Cardinality(s) - 1 /\ Cardinality(s) \in Nat
    BY <2>1, FS_RemoveElement, FS_CardinalityType
  <2>. QED
    BY <2>1, <2>2 DEF Small
<1>. QED
  BY <1>1 DEF Small

LEMMA SmallAll ==
  ASSUME NEW S, IsFiniteSet(S)
  PROVE  Cardinality(S) \in Nat /\ Small(S, Cardinality(S)) = SUBSET S
BY FS_Subset, FS_CardinalityType DEF Small

\* Induction on the size of the subsets of S: T is the set of those it is true of.
LEMMA SmallInduction ==
  ASSUME NEW S, IsFiniteSet(S), NEW T, {} \in T,
         \A s \in SUBSET S : s # {} /\ (\A x \in s : s \ {x} \in T) => s \in T
  PROVE  SUBSET S \subseteq T
<1>. DEFINE N == Cardinality(S)
            Ns == {n \in 0..N : Small(S, n) \subseteq T}
<1>1. N \in Nat /\ Small(S, N) = SUBSET S
  BY SmallAll
<1>. HIDE DEF N
<1>2. 0 \in Ns
  <2>1. Small(S, 0) = {{}}
    BY SmallNone
  <2>2. 0 \in 0..N
    BY <1>1
  <2>. QED
    BY <2>1, <2>2
<1>3. ASSUME NEW n \in 0..(N - 1), n \in Ns PROVE n + 1 \in Ns
  <2>1. n \in Nat /\ n + 1 \in 0..N
    BY <1>1
  <2>2. ASSUME NEW s \in Small(S, n + 1) PROVE s \in T
    <3>1. \A x \in s : s \ {x} \in Small(S, n)
      BY <2>1, SmallLess
    <3>2. \A x \in s : s \ {x} \in T
      BY <1>3, <3>1
    <3>3. s \in SUBSET S
      BY DEF Small
    <3>. QED
      BY <3>2, <3>3
  <2>. QED
    BY <2>1, <2>2
<1>. HIDE DEF Ns
<1>4. \A n \in 0..N : n \in Ns
  BY <1>1, <1>2, <1>3, InductionUpTo
<1>5. N \in Ns
  BY <1>1, <1>4
<1>. QED
  BY <1>1, <1>5 DEF Ns

LEMMA SumStep ==
  ASSUME NEW S, NEW n \in Nat, NEW g, Values(g, S),
         NEW f \in [Small(S, n) -> Int], IsSum(f, g, Small(S, n))
  PROVE  \E h \in [Small(S, n + 1) -> Int] : IsSum(h, g, Small(S, n + 1))
<1>. DEFINE pick(s) == CHOOSE x \in s : TRUE
            step(k, s) == IF s = {} THEN 0 ELSE g[pick(s)] + k[s \ {pick(s)}]
            h == [s \in Small(S, n + 1) |-> step(f, s)]
<1>1. \A s \in Small(S, n) : f[s] = step(f, s) /\ s \in Small(S, n + 1)
  <2>1. \A s \in Small(S, n) : s \in Small(S, n + 1)
    BY FS_CardinalityType DEF Small
  <2>2. \A s \in Small(S, n) : f[s] = step(f, s)
    BY DEF IsSum
  <2>. QED
    BY <2>1, <2>2
<1>2. ASSUME NEW s \in Small(S, n + 1), s # {}
      PROVE  pick(s) \in S /\ s \ {pick(s)} \in Small(S, n)
  BY <1>2, SmallLess
<1>. HIDE DEF pick
<1>3. ASSUME NEW s \in Small(S, n + 1) PROVE step(f, s) \in Int
  <2>1. CASE s = {}
    BY <2>1
  <2>2. CASE s # {}
    <3>1. g[pick(s)] \in Int /\ f[s \ {pick(s)}] \in Int
      BY <1>2, <2>2 DEF Values
    <3>. QED
      BY <2>2, <3>1
  <2>. QED
    BY <2>1, <2>2
<1>4. h \in [Small(S, n + 1) -> Int]
  BY <1>3
<1>5. \A s \in Small(S, n) : h[s] = f[s]
  BY <1>1
<1>6. ASSUME NEW s \in Small(S, n + 1) PROVE step(f, s) = step(h, s)
  BY <1>2, <1>5
<1>7. h = [s \in Small(S, n + 1) |-> step(h, s)]
  BY <1>6
<1>8. IsSum(h, g, Small(S, n + 1))
  BY <1>7 DEF IsSum, pick
<1>. QED
  BY <1>4, <1>8

LEMMA SumExists ==
  ASSUME NEW S, IsFiniteSet(S), NEW g, Values(g, S)
  PROVE  \E f \in [SUBSET S -> Int] : IsSum(f, g, SUBSET S)
<1>. DEFINE N == Cardinality(S)
            T == {n \in 0..N : \E f \in [Small(S, n) -> Int] : IsSum(f, g, Small(S, n))}
<1>1. N \in Nat /\ Small(S, N) = SUBSET S
  BY SmallAll
<1>2. 0 \in T
  <2>1. Small(S, 0) = {{}}
    BY SmallNone
  <2>. DEFINE f == [s \in Small(S, 0) |-> 0]
  <2>2. f \in [Small(S, 0) -> Int] /\ IsSum(f, g, Small(S, 0))
    BY <2>1 DEF IsSum
  <2>. HIDE DEF f, N
  <2>. QED
    BY <1>1, <2>2
<1>3. ASSUME NEW n \in 0..(N - 1), n \in T PROVE n + 1 \in T
  <2>. HIDE DEF T, N
  <2>1. n \in Nat /\ n + 1 \in 0..N
    BY <1>1
  <2>2. PICK f \in [Small(S, n) -> Int] : IsSum(f, g, Small(S, n))
    BY <1>3 DEF T
  <2>3. \E h \in [Small(S, n + 1) -> Int] : IsSum(h, g, Small(S, n + 1))
    BY <2>1, <2>2, SumStep
  <2>. QED
    BY <2>1, <2>3 DEF T
<1>. HIDE DEF T
<1>4. N \in T
  <2>. HIDE DEF N
  <2>1. \A n \in 0..N : n \in T
    BY <1>1, <1>2, <1>3, InductionUpTo
  <2>. QED
    BY <1>1, <2>1
<1>. QED
  BY <1>1, <1>4 DEF T

\* One turn of a sum.
LEMMA SumTurn ==
  ASSUME NEW S, NEW g, NEW f, IsSum(f, g, SUBSET S), NEW s \in SUBSET S, s # {}
  PROVE  LET x == CHOOSE y \in s : TRUE IN x \in s /\ f[s] = g[x] + f[s \ {x}]
<1>1. f[s] = g[CHOOSE x \in s : TRUE] + f[s \ {CHOOSE x \in s : TRUE}]
  BY DEF IsSum
<1>2. (CHOOSE x \in s : TRUE) \in s
  OBVIOUS
<1>. QED
  BY <1>1, <1>2

Alike(g, h, S) == \A x \in S : g[x] = h[x]

\* f sums g over the subsets of S at least.
Sums(f, g, S) == \E R : S \subseteq R /\ IsSum(f, g, SUBSET R)

\* Two functions that sum the same say the same.
LEMMA SumSame ==
  ASSUME NEW S, IsFiniteSet(S), NEW g, NEW h, Alike(g, h, S),
         NEW f, Sums(f, g, S), NEW k, Sums(k, h, S)
  PROVE  \A s \in SUBSET S : f[s] = k[s]
<1>3. PICK R : S \subseteq R /\ IsSum(f, g, SUBSET R)
  BY DEF Sums
<1>4. PICK Q : S \subseteq Q /\ IsSum(k, h, SUBSET Q)
  BY DEF Sums
<1>. DEFINE T == {s \in SUBSET S : f[s] = k[s]}
<1>1. {} \in T
  BY <1>3, <1>4 DEF IsSum
<1>2. ASSUME NEW s \in SUBSET S, s # {}, \A x \in s : s \ {x} \in T PROVE s \in T
  <2>1. s \in SUBSET R /\ s \in SUBSET Q
    BY <1>3, <1>4
  <2>. DEFINE x == CHOOSE y \in s : TRUE
  <2>2. x \in s /\ f[s] = g[x] + f[s \ {x}]
    <3>1. \A t \in SUBSET R : t # {} =>
            LET z == CHOOSE y \in t : TRUE IN z \in t /\ f[t] = g[z] + f[t \ {z}]
      BY <1>3, SumTurn
    <3>. HIDE DEF T
    <3>. QED
      BY <1>2, <2>1, <3>1
  <2>3. k[s] = h[x] + k[s \ {x}]
    <3>1. \A t \in SUBSET Q : t # {} =>
            LET z == CHOOSE y \in t : TRUE IN z \in t /\ k[t] = h[z] + k[t \ {z}]
      BY <1>4, SumTurn
    <3>. HIDE DEF T
    <3>. QED
      BY <1>2, <2>1, <3>1
  <2>. HIDE DEF x
  <2>4. g[x] = h[x] /\ f[s \ {x}] = k[s \ {x}]
    BY <1>2, <2>2 DEF Alike
  <2>. QED
    BY <2>2, <2>3, <2>4
<1>. HIDE DEF T
<1>5. SUBSET S \subseteq T
  BY <1>1, <1>2, SmallInduction
<1>. QED
  BY <1>5 DEF T

IntegerSums(f, g, S) == f \in [SUBSET S -> Int] /\ IsSum(f, g, SUBSET S)

AnyLast(f, g, S) == \A s \in SUBSET S : \A x \in s : f[s] = g[x] + f[s \ {x}]

\* Any element may be added last.
LEMMA SumRemove ==
  ASSUME NEW S, IsFiniteSet(S), NEW g, Values(g, S), NEW f, IntegerSums(f, g, S)
  PROVE  AnyLast(f, g, S)
<1>. USE DEF IntegerSums
<1>. DEFINE T == {s \in SUBSET S : \A x \in s : f[s] = g[x] + f[s \ {x}]}
<1>1. {} \in T
  OBVIOUS
<1>2. ASSUME NEW s \in SUBSET S, s # {}, \A x \in s : s \ {x} \in T PROVE s \in T
  <2>. DEFINE y == CHOOSE z \in s : TRUE
  <2>1. y \in s /\ f[s] = g[y] + f[s \ {y}]
    BY <1>2, SumTurn
  <2>. HIDE DEF y
  <2>2. ASSUME NEW x \in s, x # y PROVE f[s] = g[x] + f[s \ {x}]
    <3>1. x \in s \ {y} /\ y \in s \ {x} /\ (s \ {y}) \ {x} = (s \ {x}) \ {y}
      BY <2>1, <2>2
    <3>4. s \ {y} \in T /\ s \ {x} \in T
      BY <1>2, <2>1
    <3>2. f[s \ {y}] = g[x] + f[(s \ {y}) \ {x}] /\ f[s \ {x}] = g[y] + f[(s \ {x}) \ {y}]
      BY <3>1, <3>4
    <3>3. g[x] \in Int /\ g[y] \in Int /\ f[(s \ {y}) \ {x}] \in Int
      BY <2>1 DEF Values
    <3>. HIDE DEF T
    <3>5. f[(s \ {y}) \ {x}] = f[(s \ {x}) \ {y}]
      BY <3>1
    <3>6. f[s] = g[y] + (g[x] + f[(s \ {y}) \ {x}])
      BY <2>1, <3>2
    <3>7. g[x] + f[s \ {x}] = g[x] + (g[y] + f[(s \ {y}) \ {x}])
      BY <3>2, <3>5
    <3>. QED
      BY <3>3, <3>6, <3>7
  <2>. QED
    BY <2>1, <2>2
<1>. HIDE DEF T
<1>3. SUBSET S \subseteq T
  BY <1>1, <1>2, SmallInduction
<1>. QED
  BY <1>3 DEF T, AnyLast

LEMMA SumIsExists ==
  ASSUME NEW S, IsFiniteSet(S), NEW g, Values(g, S)
  PROVE  \E v \in Int : SumIs(v, g, S)
<1>1. PICK f \in [SUBSET S -> Int] : IsSum(f, g, SUBSET S)
  BY SumExists
<1>2. f[S] \in Int
  OBVIOUS
<1>. QED
  BY <1>1, <1>2 DEF SumIs

LEMMA SumIsUnique ==
  ASSUME NEW S, IsFiniteSet(S), NEW g, NEW h, Alike(g, h, S),
         NEW v, SumIs(v, g, S), NEW w, SumIs(w, h, S)
  PROVE  v = w
<1>1. PICK f : IsSum(f, g, SUBSET S) /\ v = f[S]
  BY DEF SumIs
<1>2. PICK k : IsSum(k, h, SUBSET S) /\ w = k[S]
  BY DEF SumIs
<1>3. \A s \in SUBSET S : f[s] = k[s]
  <2>1. Sums(f, g, S) /\ Sums(k, h, S)
    BY <1>1, <1>2 DEF Sums
  <2>. QED
    BY <2>1, SumSame
<1>. QED
  BY <1>1, <1>2, <1>3

\* The sum without x, and x.
LEMMA SumTake ==
  ASSUME NEW S, IsFiniteSet(S), NEW g, Values(g, S), NEW x \in S,
         NEW v, SumIs(v, g, S), NEW w, SumIs(w, g, S \ {x})
  PROVE  v = g[x] + w
<1>1. PICK f \in [SUBSET S -> Int] : IsSum(f, g, SUBSET S) /\ v = f[S]
  BY DEF SumIs
<1>2. PICK k : IsSum(k, g, SUBSET (S \ {x})) /\ w = k[S \ {x}]
  BY DEF SumIs
<1>3. v = g[x] + f[S \ {x}]
  <2>1. IntegerSums(f, g, S)
    BY <1>1 DEF IntegerSums
  <2>2. AnyLast(f, g, S)
    BY <2>1, SumRemove
  <2>. QED
    BY <1>1, <2>2 DEF AnyLast
<1>4. f[S \ {x}] = k[S \ {x}]
  <2>. DEFINE R == S \ {x}
  <2>1. /\ IsFiniteSet(R) /\ R \subseteq S /\ Alike(g, g, R)
        /\ Sums(k, g, R) /\ Sums(f, g, R)
    BY <1>1, <1>2, FS_RemoveElement DEF Alike, Sums
  <2>. HIDE DEF R
  <2>2. \A s \in SUBSET R : f[s] = k[s]
    BY <2>1, SumSame
  <2>. QED
    BY <2>2 DEF R
<1>. QED
  BY <1>2, <1>3, <1>4

\* When one value changes, so does the sum.
LEMMA SumChange ==
  ASSUME NEW S, IsFiniteSet(S), NEW g, Values(g, S), NEW h, Values(h, S), NEW d \in S,
         Alike(g, h, S \ {d}),
         NEW v, SumIs(v, g, S), NEW w, SumIs(w, h, S)
  PROVE  /\ v \in Int /\ w \in Int
         /\ w - h[d] = v - g[d]
<1>. DEFINE R == S \ {d}
<1>1. IsFiniteSet(R) /\ Values(g, R) /\ Values(h, R)
  BY FS_RemoveElement DEF Values
<1>. HIDE DEF R
<1>2. PICK a \in Int : SumIs(a, g, R)
  BY <1>1, SumIsExists
<1>3. PICK b \in Int : SumIs(b, h, R)
  BY <1>1, SumIsExists
<1>4. a = b
  <2>1. Alike(g, h, R)
    BY DEF R
  <2>. QED
    BY <1>1, <1>2, <1>3, <2>1, SumIsUnique
<1>5. v = g[d] + a
  BY <1>2, SumTake DEF R
<1>6. w = h[d] + b
  BY <1>3, SumTake DEF R
<1>7. g[d] \in Int /\ h[d] \in Int
  BY DEF Values
<1>. QED
  BY <1>4, <1>5, <1>6, <1>7

\* The sum of zeros.
LEMMA SumZero ==
  ASSUME NEW S, IsFiniteSet(S), NEW g, \A x \in S : g[x] = 0, NEW v, SumIs(v, g, S)
  PROVE  v = 0
<1>. DEFINE k == [s \in SUBSET S |-> 0]
<1>1. k \in [SUBSET S -> Int]
  OBVIOUS
<1>2. ASSUME NEW s \in SUBSET S, s # {}
      PROVE  0 = g[CHOOSE x \in s : TRUE] + k[s \ {CHOOSE x \in s : TRUE}]
  <2>. DEFINE x == CHOOSE y \in s : TRUE
  <2>1. x \in s
    BY <1>2
  <2>. HIDE DEF x
  <2>2. g[x] = 0 /\ k[s \ {x}] = 0
    BY <2>1
  <2>. QED
    BY <2>2 DEF x
<1>3. IsSum(k, g, SUBSET S)
  BY <1>2 DEF IsSum
<1>4. k[S] = 0
  OBVIOUS
<1>. HIDE DEF k
<1>5. SumIs(0, g, S)
  BY <1>1, <1>3, <1>4 DEF SumIs
<1>6. Alike(g, g, S)
  BY DEF Alike
<1>. QED
  BY <1>5, <1>6, SumIsUnique

\* A function that sums has sums for values.
LEMMA SumTyped ==
  ASSUME NEW S, IsFiniteSet(S), NEW g, Values(g, S), NEW F, IsSum(F, g, SUBSET S)
  PROVE  SumIs(F[S], g, S)
<1>1. PICK f \in [SUBSET S -> Int] : IsSum(f, g, SUBSET S)
  BY SumExists
<1>2. \A s \in SUBSET S : F[s] = f[s]
  <2>1. Alike(g, g, S) /\ Sums(f, g, S) /\ Sums(F, g, S)
    BY <1>1 DEF Alike, Sums
  <2>. QED
    BY <2>1, SumSame
<1>3. F[S] = f[S]
  BY <1>2
<1>. QED
  BY <1>1, <1>3 DEF SumIs

-------------------------------------------------------------------------------
(***************************************************************************)
(* What is left of a sequence when only some of its places are kept.       *)
(***************************************************************************)
RankIn(K, j) == Cardinality({k \in K : k <= j})

Pick(text, K) == [i \in 1..Cardinality(K) |-> text[CHOOSE j \in K : RankIn(K, j) = i]]

LEMMA PlacesFinite ==
  ASSUME NEW n \in Nat, NEW K, K \subseteq 1..n
  PROVE  /\ IsFiniteSet(K) /\ Cardinality(K) \in Nat
         /\ \A j : IsFiniteSet({k \in K : k <= j}) /\ RankIn(K, j) \in Nat /\ RankIn(K, j) <= Cardinality(K)
<1>1. IsFiniteSet(1..n)
  BY FS_Interval
<1>2. IsFiniteSet(K) /\ Cardinality(K) \in Nat
  BY <1>1, FS_Subset, FS_CardinalityType
<1>3. ASSUME NEW j
      PROVE  IsFiniteSet({k \in K : k <= j}) /\ RankIn(K, j) \in Nat /\ RankIn(K, j) <= Cardinality(K)
  <2>1. {k \in K : k <= j} \in SUBSET K
    OBVIOUS
  <2>. QED
    BY <1>2, <2>1, FS_Subset, FS_CardinalityType DEF RankIn
<1>. QED
  BY <1>2, <1>3

\* No two places have the same rank,
LEMMA RankUnique ==
  ASSUME NEW n \in Nat, NEW K, K \subseteq 1..n, NEW i \in K, NEW j \in K, i < j
  PROVE  RankIn(K, i) # RankIn(K, j)
<1>1. {k \in K : k <= i} \in SUBSET {k \in K : k <= j}
  <2>1. \A k \in K : k \in 1..n
    OBVIOUS
  <2>2. \A k \in K : k <= i => k <= j
    BY <2>1
  <2>. QED
    BY <2>2
<1>2. j \in {k \in K : k <= j} /\ j \notin {k \in K : k <= i}
  BY \A k \in K : k \in Int
<1>3. IsFiniteSet({k \in K : k <= j})
  BY PlacesFinite
<1>. QED
  BY <1>1, <1>2, <1>3, FS_Subset DEF RankIn

\* and every rank has a place.
LEMMA RankOfLast ==
  ASSUME NEW n \in Nat, NEW K, K \subseteq 1..n
  PROVE  /\ Cardinality(K \cup {n + 1}) = Cardinality(K) + 1
         /\ RankIn(K \cup {n + 1}, n + 1) = Cardinality(K) + 1
         /\ \A j \in K : RankIn(K \cup {n + 1}, j) = RankIn(K, j)
<1>1. n + 1 \notin K /\ \A k \in K : k \in Int /\ k <= n
  OBVIOUS
<1>2. Cardinality(K \cup {n + 1}) = Cardinality(K) + 1
  BY <1>1, PlacesFinite, FS_AddElement
<1>3. {k \in K \cup {n + 1} : k <= n + 1} = K \cup {n + 1}
  <2>1. \A k \in K \cup {n + 1} : k <= n + 1
    BY <1>1
  <2>. QED
    BY <2>1
<1>4. \A j \in K : {k \in K \cup {n + 1} : k <= j} = {k \in K : k <= j}
  BY <1>1
<1>. QED
  BY <1>2, <1>3, <1>4 DEF RankIn

LEMMA RankExists ==
  ASSUME NEW n \in Nat
  PROVE  \A K \in SUBSET (1..n) : \A i \in 1..Cardinality(K) : \E j \in K : RankIn(K, j) = i
<1>. DEFINE T == {m \in 0..n : \A K \in SUBSET (1..m) : \A i \in 1..Cardinality(K) :
                                 \E j \in K : RankIn(K, j) = i}
<1>1. 0 \in T
  <2>1. \A K \in SUBSET (1..0) : 1..Cardinality(K) = {}
    <3>1. \A K \in SUBSET (1..0) : K = {}
      OBVIOUS
    <3>2. Cardinality({}) = 0 /\ 1..0 = {}
      BY FS_EmptySet
    <3>. QED
      BY <3>1, <3>2
  <2>2. 0 \in 0..n
    OBVIOUS
  <2>. QED
    BY <2>1, <2>2
<1>2. ASSUME NEW m \in 0..(n - 1), m \in T PROVE m + 1 \in T
  <2>. SUFFICES ASSUME NEW K \in SUBSET (1..(m + 1)), NEW i \in 1..Cardinality(K)
                PROVE  \E j \in K : RankIn(K, j) = i
    BY m + 1 \in 0..n
  <2>. DEFINE L == K \ {m + 1}
  <2>1. L \in SUBSET (1..m) /\ m \in Nat
    OBVIOUS
  <2>2. \A k \in 1..Cardinality(L) : \E j \in L : RankIn(L, j) = k
    BY <1>2, <2>1
  <2>3. CASE m + 1 \notin K
    <3>1. L = K
      BY <2>3
    <3>. QED
      BY <2>2, <3>1
  <2>4. CASE m + 1 \in K
    <3>1. L \cup {m + 1} = K
      BY <2>4
    <3>. HIDE DEF L
    <3>2. m \in Nat /\ L \subseteq 1..m
      BY <2>1
    <3>3. /\ Cardinality(L \cup {m + 1}) = Cardinality(L) + 1
          /\ RankIn(L \cup {m + 1}, m + 1) = Cardinality(L) + 1
          /\ \A j \in L : RankIn(L \cup {m + 1}, j) = RankIn(L, j)
      BY <3>2, RankOfLast
    <3>4. Cardinality(L) \in Nat
      BY <3>2, PlacesFinite
    <3>5. i \in 1..Cardinality(L) \/ i = Cardinality(L) + 1
      <4>1. Cardinality(K) = Cardinality(L) + 1
        BY <3>1, <3>3
      <4>2. i \in 1..(Cardinality(L) + 1)
        BY <4>1
      <4>. QED
        BY <3>4, <4>2
    <3>6. CASE i \in 1..Cardinality(L)
      <4>1. PICK j \in L : RankIn(L, j) = i
        BY <2>2, <3>6
      <4>2. j \in K /\ RankIn(K, j) = i
        BY <3>1, <3>3, <4>1
      <4>. QED
        BY <4>2
    <3>7. CASE i = Cardinality(L) + 1
      BY <2>4, <3>1, <3>3, <3>7
    <3>. QED
      BY <3>5, <3>6, <3>7
  <2>. QED
    BY <2>3, <2>4
<1>. HIDE DEF T
<1>3. \A m \in 0..n : m \in T
  BY <1>1, <1>2, InductionUpTo
<1>. QED
  BY <1>3 DEF T

LEMMA PickAt ==
  ASSUME NEW n \in Nat, NEW K, K \subseteq 1..n, NEW text, NEW j \in K
  PROVE  RankIn(K, j) \in 1..Cardinality(K) /\ Pick(text, K)[RankIn(K, j)] = text[j]
<1>1. RankIn(K, j) \in 1..Cardinality(K)
  <2>1. {k \in K : k <= j} # {}
    BY \A k \in K : k \in Int
  <2>2. RankIn(K, j) # 0
    BY <2>1, PlacesFinite, FS_EmptySet DEF RankIn
  <2>3. RankIn(K, j) \in Nat /\ RankIn(K, j) <= Cardinality(K) /\ Cardinality(K) \in Nat
    BY PlacesFinite
  <2>. QED
    BY <2>2, <2>3
<1>. DEFINE c == CHOOSE l \in K : RankIn(K, l) = RankIn(K, j)
<1>2. c \in K /\ RankIn(K, c) = RankIn(K, j)
  OBVIOUS
<1>. HIDE DEF c
<1>3. c \in 1..n /\ j \in 1..n
  BY <1>2
<1>4. c = j
  <2>1. c < j => RankIn(K, c) # RankIn(K, j)
    BY <1>2, RankUnique
  <2>2. j < c => RankIn(K, j) # RankIn(K, c)
    BY <1>2, RankUnique
  <2>. QED
    BY <1>2, <1>3, <2>1, <2>2
<1>. QED
  BY <1>1, <1>4 DEF Pick, c

LEMMA PickType ==
  ASSUME NEW S, NEW text \in Seq(S), NEW K, K \subseteq DOMAIN text
  PROVE  Pick(text, K) \in Seq(S) /\ Len(Pick(text, K)) = Cardinality(K)
<1>1. DOMAIN text = 1..Len(text) /\ Len(text) \in Nat
  OBVIOUS
<1>2. Cardinality(K) \in Nat
  BY <1>1, PlacesFinite
<1>3. ASSUME NEW i \in 1..Cardinality(K) PROVE Pick(text, K)[i] \in S
  <2>1. PICK j \in K : RankIn(K, j) = i
    BY <1>1, RankExists
  <2>2. Pick(text, K)[i] = text[j]
    BY <1>1, <2>1, PickAt
  <2>. QED
    BY <1>1, <2>2
<1>4. Pick(text, K) \in [1..Cardinality(K) -> S]
  BY <1>3 DEF Pick
<1>. QED
  BY <1>2, <1>4

\* One more place, behind the others.
LEMMA PickOneMore ==
  ASSUME NEW S, NEW text \in Seq(S), NEW n \in Nat, n + 1 \in DOMAIN text, NEW K, K \subseteq 1..n
  PROVE  Pick(text, K \cup {n + 1}) = Append(Pick(text, K), text[n + 1])
<1>. DEFINE L == K \cup {n + 1}
<1>. DEFINE k == Cardinality(K)
<1>1. /\ DOMAIN text = 1..Len(text) /\ Len(text) \in Nat
      /\ K \subseteq DOMAIN text /\ L \subseteq DOMAIN text
      /\ L \subseteq 1..(n + 1) /\ n + 1 \in Nat /\ n + 1 \in L
  <2>1. DOMAIN text = 1..Len(text) /\ Len(text) \in Nat
    OBVIOUS
  <2>2. n + 1 <= Len(text)
    BY <2>1
  <2>. QED
    BY <2>1, <2>2
<1>2. k \in Nat /\ Cardinality(L) = k + 1 /\ RankIn(L, n + 1) = k + 1
  BY RankOfLast, PlacesFinite
<1>3. /\ Pick(text, K) \in Seq(S) /\ Len(Pick(text, K)) = k
      /\ Pick(text, L) \in Seq(S) /\ Len(Pick(text, L)) = k + 1
  BY <1>1, <1>2, PickType
<1>4. text[n + 1] \in S
  OBVIOUS
<1>. HIDE DEF k, L
<1>5. /\ Append(Pick(text, K), text[n + 1]) \in Seq(S)
      /\ Len(Append(Pick(text, K), text[n + 1])) = k + 1
      /\ Append(Pick(text, K), text[n + 1])[k + 1] = text[n + 1]
      /\ \A i \in 1..k : Append(Pick(text, K), text[n + 1])[i] = Pick(text, K)[i]
  BY <1>2, <1>3, <1>4, AppendProperties
<1>6. Pick(text, L)[k + 1] = text[n + 1]
  BY <1>1, <1>2, PickAt
<1>7. ASSUME NEW l \in L PROVE Pick(text, L)[RankIn(L, l)] = text[l]
  <2>1. PICK m \in Nat : m = n + 1
    OBVIOUS
  <2>2. L \subseteq 1..m
    BY <1>1, <2>1
  <2>. QED
    BY <2>2, PickAt
<1>8. ASSUME NEW i \in 1..k PROVE Pick(text, L)[i] = Pick(text, K)[i]
  <2>1. PICK j \in K : RankIn(K, j) = i
    BY <1>8, RankExists DEF k
  <2>2. RankIn(L, j) = i /\ j \in L
    BY <2>1, RankOfLast DEF L
  <2>3. Pick(text, K)[i] = text[j]
    BY <2>1, PickAt
  <2>4. Pick(text, L)[RankIn(L, j)] = text[j]
    BY <1>7, <2>2
  <2>. QED
    BY <2>2, <2>3, <2>4
<1>9. \A i \in 1..(k + 1) : Pick(text, L)[i] = Append(Pick(text, K), text[n + 1])[i]
  <2>1. \A i \in 1..(k + 1) : i \in 1..k \/ i = k + 1
    BY <1>2
  <2>. QED
    BY <1>5, <1>6, <1>8, <2>1
<1>10. Pick(text, L) = Append(Pick(text, K), text[n + 1])
  BY <1>3, <1>5, <1>9, SeqEqual
<1>. QED
  BY <1>10 DEF L

\* A whole stretch behind the others.
LEMMA PickStretch ==
  ASSUME NEW S, NEW text \in Seq(S), NEW s \in 1..(Len(text) + 1), NEW e \in (s - 1)..Len(text),
         NEW K, K \subseteq 1..(s - 1)
  PROVE  Pick(text, K \cup (s..e)) = Pick(text, K) \o SubSeq(text, s, e)
<1>. DEFINE P == Pick(text, K)
<1>. DEFINE T == {d \in 0..(e - s + 1) :
                    Pick(text, K \cup (s..(s + d - 1))) = P \o SubSeq(text, s, s + d - 1)}
<1>1. DOMAIN text = 1..Len(text) /\ Len(text) \in Nat /\ s \in Nat /\ e \in Nat
  OBVIOUS
<1>2. K \subseteq DOMAIN text
  BY <1>1
<1>3. P \in Seq(S)
  BY <1>2, PickType
<1>. HIDE DEF P
<1>4. 0 \in T
  <2>1. s..(s + 0 - 1) = {} /\ 0 \in 0..(e - s + 1) /\ s + 0 - 1 < s /\ s + 0 - 1 \in Int
    BY <1>1
  <2>2. SubSeq(text, s, s + 0 - 1) = <<>>
    BY <1>1, <2>1, SubSeqEmpty
  <2>3. P \o <<>> = P
    BY <1>3, ConcatEmptySeq
  <2>. QED
    BY <2>1, <2>2, <2>3 DEF P
<1>5. ASSUME NEW d \in 0..((e - s + 1) - 1), d \in T PROVE d + 1 \in T
  <2>. DEFINE m == s + d - 1
  <2>1. m \in Nat /\ m + 1 \in 1..Len(text) /\ m + 1 = s + (d + 1) - 1 /\ d + 1 \in 0..(e - s + 1)
        /\ s <= m + 1
    BY <1>1
  <2>2. Pick(text, K \cup (s..m)) = P \o SubSeq(text, s, m)
    BY <1>5
  <2>. HIDE DEF m, T
  <2>3. s..(m + 1) = (s..m) \cup {m + 1} /\ K \cup (s..m) \subseteq 1..m
    BY <1>1, <2>1 DEF m
  <2>4. Pick(text, K \cup (s..(m + 1))) = Append(P \o SubSeq(text, s, m), text[m + 1])
    <3>1. K \cup (s..(m + 1)) = (K \cup (s..m)) \cup {m + 1}
      BY <2>3
    <3>. QED
      BY <1>1, <2>1, <2>2, <2>3, <3>1, PickOneMore
  <2>5. /\ SubSeq(text, s, m) \in Seq(S)
        /\ SubSeq(text, s, m + 1) = SubSeq(text, s, m) \o <<text[m + 1]>>
    <3>1. SubSeq(text, s, m) \in Seq(S)
      BY <1>1, <2>1
    <3>2. m + 1 \in s..Len(text) /\ s \in 1..Len(text) /\ (m + 1) - 1 = m
      BY <1>1, <2>1
    <3>. QED
      BY <3>1, <3>2, SubSeqRecursiveSecond
  <2>6. text[m + 1] \in S
    BY <1>1, <2>1
  <2>7. Append(P \o SubSeq(text, s, m), text[m + 1]) = P \o SubSeq(text, s, m + 1)
    <3>1. /\ P \in Seq(S) /\ SubSeq(text, s, m) \in Seq(S) /\ <<text[m + 1]>> \in Seq(S)
      BY <1>3, <2>5, <2>6
    <3>2. \A q, w, u \in Seq(S) : (q \o w) \o u = q \o (w \o u)
      BY ConcatAssociative
    <3>3. \A q \in Seq(S) : Append(q, text[m + 1]) = q \o <<text[m + 1]>>
      BY <2>6
    <3>4. P \o SubSeq(text, s, m) \in Seq(S)
      BY <3>1, ConcatProperties
    <3>5. Append(P \o SubSeq(text, s, m), text[m + 1]) = (P \o SubSeq(text, s, m)) \o <<text[m + 1]>>
      BY <3>3, <3>4
    <3>6. (P \o SubSeq(text, s, m)) \o <<text[m + 1]>> = P \o (SubSeq(text, s, m) \o <<text[m + 1]>>)
      BY <3>1, <3>2
    <3>. QED
      BY <2>5, <3>5, <3>6, Zenon
  <2>. QED
    BY <2>1, <2>4, <2>7 DEF T
<1>. HIDE DEF T
<1>6. \A d \in 0..(e - s + 1) : d \in T
  <2>1. e - s + 1 \in Nat
    BY <1>1
  <2>. QED
    BY <1>4, <1>5, <2>1, InductionUpTo
<1>7. e - s + 1 \in 0..(e - s + 1) /\ s + (e - s + 1) - 1 = e
  BY <1>1
<1>. QED
  BY <1>6, <1>7 DEF T, P

-------------------------------------------------------------------------------
(***************************************************************************)
(* A machine that reads: R is the set of its steps <<state, item, state>>. *)
(***************************************************************************)
IsPath(R, r, s, q, st) ==
  st[0] = r /\ st[Len(s)] = q /\ \A i \in 1..Len(s) : <<st[i - 1], s[i], st[i]>> \in R

\* Reading s leads from r to q.
Leads(R, r, s, q) == \E st : IsPath(R, r, s, q, st)

LEMMA LeadsEmpty ==
  ASSUME NEW R, NEW r, NEW q
  PROVE  Leads(R, r, <<>>, q) <=> r = q
<1>1. r = q => IsPath(R, r, <<>>, q, [i \in {0} |-> r])
  BY DEF IsPath
<1>. QED
  BY <1>1 DEF Leads, IsPath

LEMMA LeadsAppend ==
  ASSUME NEW R, NEW r, NEW S, NEW s \in Seq(S), NEW q, Leads(R, r, s, q),
         NEW item \in S, NEW p, <<q, item, p>> \in R
  PROVE  Leads(R, r, Append(s, item), p)
<1>1. PICK st : IsPath(R, r, s, q, st)
  BY DEF Leads
<1>. DEFINE n == Len(s)
            t == Append(s, item)
            ts == [i \in 0..(n + 1) |-> IF i = n + 1 THEN p ELSE st[i]]
<1>2. n \in Nat /\ Len(t) = n + 1 /\ t[n + 1] = item /\ \A i \in 1..n : t[i] = s[i]
  BY AppendProperties
<1>3. st[0] = r /\ st[n] = q /\ \A i \in 1..n : <<st[i - 1], s[i], st[i]>> \in R
  BY <1>1 DEF IsPath
<1>. HIDE DEF n, t
<1>4. \A i \in 0..n : ts[i] = st[i]
  BY <1>2
<1>5. ts[n + 1] = p /\ ts[0] = r
  BY <1>2, <1>3
<1>. HIDE DEF ts
<1>6. ASSUME NEW i \in 1..(n + 1) PROVE <<ts[i - 1], t[i], ts[i]>> \in R
  <2>1. CASE i = n + 1
    <3>1. i - 1 = n /\ ts[n] = q
      BY <1>2, <1>3, <1>4, <2>1
    <3>. QED
      BY <1>2, <1>5, <2>1, <3>1
  <2>2. CASE i # n + 1
    <3>1. i \in 1..n /\ i - 1 \in 0..n /\ i \in 0..n
      BY <1>2, <2>2
    <3>. QED
      BY <1>2, <1>3, <1>4, <3>1
  <2>. QED
    BY <2>1, <2>2
<1>7. IsPath(R, r, t, p, ts)
  BY <1>2, <1>5, <1>6 DEF IsPath
<1>. QED
  BY <1>7 DEF Leads, t

LEMMA LeadsTail ==
  ASSUME NEW R, NEW r, NEW S, NEW s \in Seq(S), s # <<>>, NEW q, Leads(R, r, s, q)
  PROVE  \E p : <<r, Head(s), p>> \in R /\ Leads(R, p, Tail(s), q)
<1>1. PICK st : IsPath(R, r, s, q, st)
  BY DEF Leads
<1>. DEFINE n == Len(s)
            t == Tail(s)
            ts == [i \in 0..(n - 1) |-> st[i + 1]]
<1>2. n \in Nat \ {0} /\ Len(t) = n - 1 /\ Head(s) = s[1] /\ \A i \in 1..(n - 1) : t[i] = s[i + 1]
  BY EmptySeq, HeadTailProperties
<1>3. st[0] = r /\ st[n] = q /\ \A i \in 1..n : <<st[i - 1], s[i], st[i]>> \in R
  BY <1>1 DEF IsPath
<1>. HIDE DEF n, t
<1>4. \A i \in 0..(n - 1) : ts[i] = st[i + 1]
  OBVIOUS
<1>. HIDE DEF ts
<1>5. ts[0] = st[1] /\ ts[n - 1] = q
  <2>1. 0 \in 0..(n - 1) /\ n - 1 \in 0..(n - 1) /\ (n - 1) + 1 = n /\ 0 + 1 = 1
    BY <1>2
  <2>. QED
    BY <1>3, <1>4, <2>1
<1>6. ASSUME NEW i \in 1..(n - 1) PROVE <<ts[i - 1], t[i], ts[i]>> \in R
  <2>1. /\ i - 1 \in 0..(n - 1) /\ i \in 0..(n - 1) /\ i + 1 \in 1..n
        /\ (i - 1) + 1 = i /\ (i + 1) - 1 = i
    BY <1>2
  <2>2. <<st[i], s[i + 1], st[i + 1]>> \in R
    BY <1>3, <2>1
  <2>. QED
    BY <1>2, <1>4, <2>1, <2>2
<1>7. IsPath(R, st[1], t, q, ts)
  BY <1>2, <1>5, <1>6 DEF IsPath
<1>8. <<r, Head(s), st[1]>> \in R
  <2>1. 1 \in 1..n /\ 1 - 1 = 0
    BY <1>2
  <2>. QED
    BY <1>2, <1>3, <2>1
<1>. QED
  BY <1>7, <1>8 DEF Leads, t

LEMMA LeadsPrefix ==
  ASSUME NEW R, NEW r, NEW S, NEW s \in Seq(S), NEW q, Leads(R, r, s, q), NEW k \in 0..Len(s)
  PROVE  \E p : Leads(R, r, SubSeq(s, 1, k), p)
<1>1. PICK st : IsPath(R, r, s, q, st)
  BY DEF Leads
<1>2. Len(SubSeq(s, 1, k)) = k /\ \A i \in 1..k : SubSeq(s, 1, k)[i] = s[i] /\ i \in 1..Len(s)
  BY LenProperties
<1>3. IsPath(R, r, SubSeq(s, 1, k), st[k], st)
  BY <1>1, <1>2 DEF IsPath
<1>. QED
  BY <1>3 DEF Leads

LEMMA LeadsMore ==
  ASSUME NEW R, NEW r, NEW s, NEW q, Leads(R, r, s, q), NEW Q, R \subseteq Q
  PROVE  Leads(Q, r, s, q)
<1>1. PICK st : IsPath(R, r, s, q, st)
  BY DEF Leads
<1>2. IsPath(Q, r, s, q, st)
  BY <1>1 DEF IsPath
<1>. QED
  BY <1>2 DEF Leads

\* What no step leaves, no path leaves.
LEMMA LeadsWithin ==
  ASSUME NEW R, NEW r, NEW S, NEW s \in Seq(S), NEW q, Leads(R, r, s, q),
         NEW T, r \in T, \A t \in R : t[1] \in T => t[3] \in T
  PROVE  q \in T
<1>1. PICK st : IsPath(R, r, s, q, st)
  BY DEF Leads
<1>. DEFINE n == Len(s)
            U == {i \in 0..n : st[i] \in T}
<1>2. n \in Nat /\ st[0] = r /\ st[n] = q /\ \A i \in 1..n : <<st[i - 1], s[i], st[i]>> \in R
  BY <1>1 DEF IsPath
<1>. HIDE DEF n
<1>3. 0 \in U
  BY <1>2
<1>4. ASSUME NEW i \in 0..(n - 1), i \in U PROVE i + 1 \in U
  <2>1. i + 1 \in 1..n /\ i + 1 \in 0..n /\ (i + 1) - 1 = i
    BY <1>2
  <2>2. PICK t \in R : t = <<st[i], s[i + 1], st[i + 1]>>
    BY <1>2, <2>1
  <2>3. t[1] = st[i] /\ t[3] = st[i + 1]
    BY <2>2
  <2>. QED
    BY <1>4, <2>1, <2>2, <2>3
<1>. HIDE DEF U
<1>5. \A i \in 0..n : i \in U
  BY <1>2, <1>3, <1>4, InductionUpTo
<1>6. n \in U
  BY <1>2, <1>5
<1>. QED
  BY <1>2, <1>6 DEF U
===============================================================================
