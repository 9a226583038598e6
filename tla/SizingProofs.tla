---------------------------- MODULE SizingProofs ----------------------------
(***************************************************************************)
(* Proofs about the arithmetic of a batch (modules BatchSizing and         *)
(* Capacity): largest elements, sums, and the bounds on what is asked for. *)
(***************************************************************************)
EXTENDS Capacity, FiniteSetTheorems, WellFoundedInduction, TLAPS

(* Every nonempty set of naturals has a least element: proofs by smallest  *)
(* counterexample stand in for induction.                                  *)
LEMMA NatLeast ==
  ASSUME NEW T \in SUBSET Nat, T # {}
  PROVE  \E n \in T : \A m \in T : n <= m
<1> DEFINE R == OpToRel(<, Nat)
<1>1. \A m, n \in Nat : m < n => <<m, n>> \in R
  BY DEF OpToRel
<1>2. IsWellFoundedOn(R, Nat)
  BY NatLessThanWellFounded
<1> HIDE DEF R
<1>3. PICK n \in T : \A m \in T : ~ (<<m, n>> \in R)
  BY <1>2, WFMin
<1>4. ASSUME NEW m \in T
      PROVE  n <= m
  <2>1. m \in Nat /\ n \in Nat
    OBVIOUS
  <2>2. ~ (m < n)
    BY <1>1, <1>3, <2>1
  <2> QED BY <2>1, <2>2
<1> QED BY <1>4

(* Max is the largest element of a nonempty finite set. *)
LEMMA FiniteMax ==
  ASSUME NEW S \in SUBSET Int, IsFiniteSet(S), S # {}
  PROVE  Max(S) \in S /\ \A y \in S : Max(S) >= y
<1> DEFINE HasMax(X) == \E x \in X : \A y \in X : x >= y
           T == {n \in Nat : \E X \in SUBSET S : X # {} /\ Cardinality(X) = n /\ ~ HasMax(X)}
<1>1. T = {}
  <2> SUFFICES ASSUME T # {} PROVE FALSE
    OBVIOUS
  <2>1. PICK n \in T : \A m \in T : n <= m
    BY NatLeast
  <2>2. PICK X \in SUBSET S : X # {} /\ Cardinality(X) = n /\ ~ HasMax(X)
    OBVIOUS
  <2>3. PICK a \in X : TRUE
    BY <2>2
  <2>4. IsFiniteSet(X) /\ IsFiniteSet(X \ {a}) /\ Cardinality(X \ {a}) = n - 1 /\ Cardinality(X \ {a}) \in Nat
    BY <2>2, <2>3, FS_Subset, FS_RemoveElement, FS_CardinalityType
  <2>5. X \ {a} # {} => HasMax(X \ {a})
    <3> SUFFICES ASSUME X \ {a} # {}, ~ HasMax(X \ {a}) PROVE FALSE
      OBVIOUS
    <3>1. n - 1 \in T
      BY <2>4
    <3> QED BY <2>1, <3>1
  <2>6. HasMax(X)
    BY <2>3, <2>5
  <2> QED BY <2>2, <2>6
<1>2. HasMax(S)
  BY <1>1, FS_CardinalityType
<1> QED BY <1>2 DEF Max

(* pick chooses an element of each nonempty subset of S. *)
Picks(S, pick) ==
  /\ pick \in [(SUBSET S) \ {{}} -> S]
  /\ \A s \in (SUBSET S) \ {{}} : pick[s] \in s

(* h sums the weights over each subset of S, taking the elements as picked. *)
Sums(S, pick, weight, h) ==
  /\ h \in [SUBSET S -> Nat]
  /\ \A s \in SUBSET S :
       h[s] = IF s = {} THEN 0 ELSE weight[pick[s]] + h[s \ {pick[s]}]

(* A sum can be defined by recursion over the subsets of a finite set. *)
LEMMA SubsetRecursion ==
  ASSUME NEW S, NEW pick, NEW weight,
         IsFiniteSet(S), Picks(S, pick), weight \in [S -> Nat]
  PROVE  \E h : Sums(S, pick, weight, h)
<1> USE DEF Picks
<1> DEFINE D(n) == {s \in SUBSET S : Cardinality(s) <= n}
           Solves(f, n) == \A s \in D(n) :
              f[s] = IF s = {} THEN 0 ELSE weight[pick[s]] + f[s \ {pick[s]}]
           T == {n \in Nat : ~ \E f \in [D(n) -> Nat] : Solves(f, n)}
<1>1. \A s \in SUBSET S : IsFiniteSet(s) /\ Cardinality(s) \in Nat
  BY FS_Subset, FS_CardinalityType
<1>2. \A s \in SUBSET S : s # {} => Cardinality(s \ {pick[s]}) = Cardinality(s) - 1
  BY <1>1, FS_RemoveElement
<1>3. T = {}
  <2> SUFFICES ASSUME T # {} PROVE FALSE
    OBVIOUS
  <2>1. PICK n \in T : \A m \in T : n <= m
    BY NatLeast
  <2>2. n # 0
    <3> SUFFICES ASSUME n = 0 PROVE FALSE
      OBVIOUS
    <3>1. \A s \in D(0) : s = {}
      BY <1>1, FS_EmptySet
    <3> DEFINE f == [s \in D(0) |-> 0]
    <3>2. f \in [D(0) -> Nat] /\ Solves(f, 0)
      BY <3>1
    <3> QED BY <2>1, <3>2
  <2>3. PICK f \in [D(n-1) -> Nat] : Solves(f, n-1)
    <3> SUFFICES ASSUME ~ \E f \in [D(n-1) -> Nat] : Solves(f, n-1) PROVE FALSE
      OBVIOUS
    <3>1. n - 1 \in Nat
      BY <2>1, <2>2
    <3>2. n - 1 \in T
      BY <3>1
    <3>3. n \in Nat
      OBVIOUS
    <3> HIDE DEF T
    <3>4. n <= n - 1
      BY <2>1, <3>2
    <3> QED BY <3>3, <3>4
  <2> DEFINE g == [s \in D(n) |-> IF s = {} THEN 0 ELSE weight[pick[s]] + f[s \ {pick[s]}]]
  <2>4. \A s \in D(n) : s # {} => s \ {pick[s]} \in D(n-1) /\ s \ {pick[s]} \in D(n)
    BY <1>1, <1>2
  <2>5. g \in [D(n) -> Nat]
    BY <2>3, <2>4
  <2>6. \A s \in D(n-1) : s \in D(n) /\ g[s] = f[s]
    <3> SUFFICES ASSUME NEW s \in D(n-1) PROVE s \in D(n) /\ g[s] = f[s]
      OBVIOUS
    <3>1. s \in D(n)
      BY <1>1, <2>1
    <3>2. f[s] = IF s = {} THEN 0 ELSE weight[pick[s]] + f[s \ {pick[s]}]
      BY <2>3
    <3> QED BY <3>1, <3>2
  <2>7. Solves(g, n)
    BY <2>4, <2>6
  <2> QED BY <2>1, <2>5, <2>7
<1>4. PICK f \in [D(Cardinality(S)) -> Nat] : Solves(f, Cardinality(S))
  BY <1>1, <1>3
<1>5. D(Cardinality(S)) = SUBSET S
  BY <1>1, FS_Subset
<1> QED BY <1>4, <1>5 DEF Sums

(* SumFunction (of the community modules) takes the elements as picked by  *)
(* CHOOSE, and adds the naturals it meets.                                 *)
FirstOf(S) == [s \in (SUBSET S) \ {{}} |-> CHOOSE x \in s : TRUE]

(* It picks an element of the set. *)
LEMMA FirstOfPicks == ASSUME NEW S PROVE Picks(S, FirstOf(S))
BY DEF FirstOf, Picks

(* SumFunction satisfies the recursive definition it is given. *)
LEMMA SumRecursion ==
  ASSUME NEW S, NEW f, IsFiniteSet(S), f \in [S -> Nat]
  PROVE  \E g : Sums(S, FirstOf(S), f, g) /\ SumFunction(f) = g[S]
<1> DEFINE Is(g) == g = [s \in SUBSET S |->
                      IF s = {} THEN 0
                      ELSE f[CHOOSE x \in s : TRUE] + g[s \ {CHOOSE x \in s : TRUE}]]
           g == CHOOSE g : Is(g)
<1>1. SumFunction(f) = g[S]
  BY DEF SumFunction, SumFunctionOnSet, FoldFunctionOnSet, MapThenFoldSet
<1>2. PICK h : Sums(S, FirstOf(S), f, h)
  BY FirstOfPicks, SubsetRecursion
<1>3. Is(h)
  <2>1. \A s \in SUBSET S : h[s] = IF s = {} THEN 0
             ELSE f[CHOOSE x \in s : TRUE] + h[s \ {CHOOSE x \in s : TRUE}]
    BY <1>2 DEF FirstOf, Sums
  <2> QED BY <1>2, <2>1 DEF Sums
<1>4. Is(g)
  <2> HIDE DEF Is
  <2> QED BY <1>3
<1> HIDE DEF g
<1>5. \A s \in SUBSET S : g[s] = IF s = {} THEN 0 ELSE f[FirstOf(S)[s]] + g[s \ {FirstOf(S)[s]}]
  BY <1>4 DEF FirstOf
<1> HIDE DEF Is
<1> DEFINE T == {n \in Nat : \E s \in SUBSET S : Cardinality(s) = n /\ g[s] \notin Nat}
<1>6. T = {}
  <2> SUFFICES ASSUME T # {} PROVE FALSE
    OBVIOUS
  <2>1. PICK n \in T : \A m \in T : n <= m
    BY NatLeast
  <2>2. PICK s \in SUBSET S : Cardinality(s) = n /\ g[s] \notin Nat
    OBVIOUS
  <2> DEFINE x == FirstOf(S)[s]
  <2>3. s # {}
    <3> SUFFICES ASSUME s = {} PROVE FALSE
      OBVIOUS
    <3>1. g[s] = 0
      BY <1>5
    <3> QED BY <2>2, <3>1
  <2>4. x \in s /\ g[s] = f[x] + g[s \ {x}]
    BY <1>5, <2>3, FirstOfPicks DEF Picks
  <2> HIDE DEF x
  <2>5. /\ Cardinality(s \ {x}) = n - 1 /\ n - 1 \in Nat
        /\ s \ {x} \in SUBSET S /\ f[x] \in Nat
    <3>1. IsFiniteSet(s) /\ IsFiniteSet(s \ {x})
      BY FS_Subset
    <3>2. Cardinality(s \ {x}) = Cardinality(s) - 1
      BY <2>4, <3>1, FS_RemoveElement
    <3>3. Cardinality(s \ {x}) \in Nat
      BY <3>1, FS_CardinalityType
    <3> QED BY <2>2, <2>4, <3>2, <3>3
  <2>6. g[s \ {x}] \in Nat
    <3> SUFFICES ASSUME g[s \ {x}] \notin Nat PROVE FALSE
      OBVIOUS
    <3>1. n - 1 \in T
      BY <2>5
    <3> QED BY <2>1, <3>1
  <2> QED BY <2>2, <2>4, <2>5, <2>6
<1>7. \A s \in SUBSET S : g[s] \in Nat
  BY <1>6, FS_Subset, FS_CardinalityType
<1>8. Sums(S, FirstOf(S), f, g)
  BY <1>4, <1>5, <1>7 DEF Is, Sums
<1> QED BY <1>1, <1>8

(* A sum of naturals is a natural. *)
LEMMA SumType ==
  ASSUME NEW S, NEW f, IsFiniteSet(S), f \in [S -> Nat]
  PROVE  SumFunction(f) \in Nat
<1>1. PICK g : Sums(S, FirstOf(S), f, g) /\ SumFunction(f) = g[S]
  BY SumRecursion
<1> QED BY <1>1 DEF Sums

(* The sum over a single element is its weight. *)
LEMMA SumSingle ==
  ASSUME NEW x, NEW f, f \in [{x} -> Nat]
  PROVE  SumFunction(f) = f[x]
<1>1. IsFiniteSet({x})
  BY FS_Singleton
<1>2. PICK g : Sums({x}, FirstOf({x}), f, g) /\ SumFunction(f) = g[{x}]
  BY <1>1, SumRecursion
<1>3. FirstOf({x})[{x}] = x
  BY FirstOfPicks DEF Picks
<1>4. {x} # {} /\ {x} \ {x} = {} /\ f[x] \in Nat
  OBVIOUS
<1>5. g[{x}] = f[x] + g[{}] /\ g[{}] = 0
  BY <1>2, <1>3, <1>4 DEF Sums
<1> QED BY <1>2, <1>4, <1>5

(* A sum grows with its summands. *)
LEMMA SumBounds ==
  ASSUME NEW S, NEW f, NEW h, IsFiniteSet(S), f \in [S -> Nat], h \in [S -> Nat],
         \A x \in S : f[x] <= h[x]
  PROVE  SumFunction(f) <= SumFunction(h)
<1>1. PICK g : Sums(S, FirstOf(S), f, g) /\ SumFunction(f) = g[S]
  BY SumRecursion
<1>2. PICK k : Sums(S, FirstOf(S), h, k) /\ SumFunction(h) = k[S]
  BY SumRecursion
<1> DEFINE T == {n \in Nat : \E s \in SUBSET S : Cardinality(s) = n /\ ~ (g[s] <= k[s])}
<1>3. T = {}
  <2> SUFFICES ASSUME T # {} PROVE FALSE
    OBVIOUS
  <2>1. PICK n \in T : \A m \in T : n <= m
    BY NatLeast
  <2>2. PICK s \in SUBSET S : Cardinality(s) = n /\ ~ (g[s] <= k[s])
    OBVIOUS
  <2> DEFINE x == FirstOf(S)[s]
  <2>3. s # {}
    <3> SUFFICES ASSUME s = {} PROVE FALSE
      OBVIOUS
    <3>1. g[s] = 0 /\ k[s] = 0
      BY <1>1, <1>2 DEF Sums
    <3> QED BY <2>2, <3>1
  <2>4. x \in s /\ x \in S
    BY <2>3, FirstOfPicks DEF Picks
  <2>5. g[s] = f[x] + g[s \ {x}] /\ k[s] = h[x] + k[s \ {x}]
    BY <1>1, <1>2, <2>3 DEF Sums
  <2>6. /\ f[x] \in Nat /\ h[x] \in Nat /\ f[x] <= h[x]
        /\ g[s \ {x}] \in Nat /\ k[s \ {x}] \in Nat
    BY <1>1, <1>2, <2>4 DEF Sums
  <2> HIDE DEF x
  <2>7. ~ (g[s \ {x}] <= k[s \ {x}])
    BY <2>2, <2>5, <2>6
  <2>8. /\ IsFiniteSet(s) /\ IsFiniteSet(s \ {x}) /\ s \ {x} \in SUBSET S
    BY FS_Subset
  <2>9. Cardinality(s \ {x}) = n - 1 /\ Cardinality(s \ {x}) \in Nat
    BY <2>2, <2>4, <2>8, FS_RemoveElement, FS_CardinalityType
  <2>10. n - 1 \in T
    BY <2>7, <2>8, <2>9
  <2> QED BY <2>1, <2>10
<1>4. g[S] <= k[S]
  BY <1>3, FS_CardinalityType
<1> QED BY <1>1, <1>2, <1>4
----------------------------------------------------------------------------
(* The number of nodes asked for is a natural number that fits the room.   *)
LEMMA NeededBound ==
  ASSUME NEW pods \in Nat, NEW perNode \in Nat, NEW current \in Int, NEW max \in Nat
  PROVE  /\ CalculateNodesNeeded(pods, perNode, current, max) \in Nat
         /\ CalculateNodesNeeded(pods, perNode, current, max) > 0 =>
              current + CalculateNodesNeeded(pods, perNode, current, max) <= max
<1> DEFINE b == IF perNode <= 0 THEN 1 ELSE perNode
<1>1. b \in Nat /\ b > 0
  OBVIOUS
<1>2. CeilDiv(pods, b) \in Int
  BY <1>1 DEF CeilDiv
<1> HIDE DEF b
<1> DEFINE needed == CeilDiv(pods, b)
<1>3. needed \in Int
  BY <1>2
<1>4. CalculateNodesNeeded(pods, perNode, current, max) =
        LET capped == IF needed > max - current THEN max - current ELSE needed
        IN IF current >= max THEN 0 ELSE IF capped < 0 THEN 0 ELSE capped
  BY DEF CalculateNodesNeeded, b
<1> HIDE DEF needed
<1> QED BY <1>3, <1>4

(* Unless it takes all the room, it is the quotient rounded up.            *)
LEMMA NeededExact ==
  ASSUME NEW pods \in Nat, NEW perNode \in Nat, NEW current \in Int, NEW max \in Nat,
         perNode > 0,
         CalculateNodesNeeded(pods, perNode, current, max) > 0,
         CalculateNodesNeeded(pods, perNode, current, max) < max - current
  PROVE  CalculateNodesNeeded(pods, perNode, current, max) = CeilDiv(pods, perNode)
<1> DEFINE needed == CeilDiv(pods, perNode)
<1>1. CalculateNodesNeeded(pods, perNode, current, max) =
        LET capped == IF needed > max - current THEN max - current ELSE needed
        IN IF current >= max THEN 0 ELSE IF capped < 0 THEN 0 ELSE capped
  BY DEF CalculateNodesNeeded
<1>2. needed \in Int
  BY DEF CeilDiv
<1> HIDE DEF needed
<1>3. CalculateNodesNeeded(pods, perNode, current, max) = needed
  BY <1>1, <1>2
<1> QED BY <1>3 DEF needed

(* A quantity of Mi is no smaller in megabytes, which are smaller units.   *)
LEMMA MegabytesBound ==
  ASSUME NEW mi \in Nat
  PROVE  Megabytes(mi) \in Nat /\ Megabytes(mi) >= mi
BY DEF Megabytes, CeilDiv

(* Rounded up, a quotient taken divisor times reaches the dividend, and    *)
(* rounding up is what makes every index below it belong to some quotient. *)
LEMMA CeilDivBounds ==
  ASSUME NEW a \in Nat, NEW b \in Nat, b > 0
  PROVE  /\ CeilDiv(a, b) \in Nat
         /\ \A x \in 0..(a - 1) : x \div b \in 0..(CeilDiv(a, b) - 1)
<1> DEFINE d == (a + b - 1) \div b
<1>1. d \in Nat /\ a + b - 1 < (d + 1) * b
  BY SMT
<1>2. ASSUME NEW x \in 0..(a - 1) PROVE x \div b \in 0..(d - 1)
  <2> DEFINE q == x \div b
  <2>1. q \in Nat /\ q * b <= x
    BY SMT
  <2> HIDE DEF q, d
  <2>2. q < d
    <3> SUFFICES ASSUME d <= q PROVE FALSE
      BY <1>1, <2>1
    <3>1. d * b <= q * b /\ d * b \in Nat /\ q * b \in Nat
      BY <1>1, <2>1
    <3>2. (d + 1) * b = d * b + b
      BY <1>1
    <3> QED BY <1>1, <2>1, <3>1, <3>2
  <2> QED BY <1>1, <2>1, <2>2 DEF q
<1> QED BY <1>1, <1>2 DEF CeilDiv

(* place puts the elements of S on m nodes, at most k on each.             *)
Packs(place, S, m, k) ==
  /\ place \in [S -> 1..m]
  /\ \A i \in 1..m : /\ IsFiniteSet({x \in S : place[x] = i})
                     /\ Cardinality({x \in S : place[x] = i}) <= k

(* The nodes counted by CeilDiv are enough for that. *)
LEMMA Packing ==
  ASSUME NEW S, IsFiniteSet(S), NEW k \in Nat, k > 0
  PROVE  \E place : Packs(place, S, CeilDiv(Cardinality(S), k), k)
<1> DEFINE n == Cardinality(S)
           m == CeilDiv(n, k)
<1>1. n \in Nat /\ ExistsBijection(1..n, S)
  BY FS_CardinalityType
<1>2. PICK e : e \in Bijection(1..n, S)
  BY <1>1 DEF ExistsBijection
<1>3. \A x \in S : \E j \in 1..n : e[j] = x
  BY <1>2 DEF Bijection, Surjection
<1> DEFINE idx == [x \in S |-> CHOOSE j \in 1..n : e[j] = x]
<1>4. \A x \in S : idx[x] \in 1..n /\ e[idx[x]] = x
  BY <1>3
<1> HIDE DEF idx
<1>5. \A x, y \in S : idx[x] = idx[y] => x = y
  BY <1>4
<1> DEFINE place == [x \in S |-> (idx[x] - 1) \div k + 1]
<1>6. m \in Nat /\ \A x \in 0..(n - 1) : x \div k \in 0..(m - 1)
  BY <1>1, CeilDivBounds
<1> HIDE DEF m, n
<1>7. place \in [S -> 1..m]
  <2> SUFFICES ASSUME NEW x \in S PROVE (idx[x] - 1) \div k + 1 \in 1..m
    OBVIOUS
  <2>1. idx[x] - 1 \in 0..(n - 1)
    BY <1>1, <1>4
  <2>2. (idx[x] - 1) \div k \in 0..(m - 1)
    BY <1>6, <2>1
  <2> QED BY <1>6, <2>2
<1>8. ASSUME NEW i \in 1..m
      PROVE  /\ IsFiniteSet({x \in S : place[x] = i})
             /\ Cardinality({x \in S : place[x] = i}) <= k
  <2> DEFINE group == {x \in S : place[x] = i}
             inj == [x \in group |-> idx[x] - (i - 1) * k]
  <2>1. ASSUME NEW x \in group PROVE inj[x] \in 1..k
    <3> DEFINE j == idx[x] - 1
    <3>1. j \in Nat
      BY <1>1, <1>4
    <3>2. j \div k = i - 1
      <4>1. j \div k \in Int
        BY <3>1
      <4> QED BY <4>1, <1>6
    <3> HIDE DEF j
    <3>3. (j \div k) * k <= j /\ j < (j \div k + 1) * k /\ j \div k \in Nat
      BY <3>1, SMT
    <3>4. (j \div k + 1) * k = (j \div k) * k + k /\ (j \div k) * k \in Nat
      BY <3>3
    <3> DEFINE base == (i - 1) * k
    <3>5. base \in Nat /\ j - base + 1 \in 1..k
      BY <3>1, <3>2, <3>3, <3>4
    <3>6. inj[x] = idx[x] - base /\ idx[x] \in Nat
      BY <1>1, <1>4
    <3> HIDE DEF base
    <3>7. idx[x] - base = j - base + 1
      BY <3>5, <3>6 DEF j
    <3> QED BY <3>5, <3>6, <3>7
  <2>2. \A x, y \in group : inj[x] = inj[y] => x = y
    <3> SUFFICES ASSUME NEW x \in group, NEW y \in group, inj[x] = inj[y] PROVE x = y
      OBVIOUS
    <3> DEFINE base == (i - 1) * k
    <3>1. idx[x] \in Int /\ idx[y] \in Int /\ base \in Int
      BY <1>1, <1>4, <1>6
    <3>2. idx[x] - base = idx[y] - base
      OBVIOUS
    <3> HIDE DEF base
    <3>3. idx[x] = idx[y]
      BY <3>1, <3>2
    <3> QED BY <1>5, <3>3
  <2>3. inj \in Injection(group, 1..k)
    BY <2>1, <2>2 DEF Injection, IsInjective
  <2>4. IsFiniteSet(1..k) /\ Cardinality(1..k) = k
    BY FS_Interval
  <2> HIDE DEF inj, group
  <2>5. IsFiniteSet(group) /\ Cardinality(group) <= k
    BY <2>3, <2>4, FS_Injection
  <2> QED BY <2>5 DEF group
<1> HIDE DEF place
<1>9. Packs(place, S, m, k)
  BY <1>7, <1>8 DEF Packs
<1> QED BY <1>9 DEF m, n

(* A sum is at most the number of its summands times a bound on them.      *)
LEMMA SumAtMost ==
  ASSUME NEW S, NEW f, IsFiniteSet(S), f \in [S -> Nat], NEW c \in Nat,
         \A x \in S : f[x] <= c
  PROVE  SumFunction(f) <= Cardinality(S) * c
<1>1. PICK g : Sums(S, FirstOf(S), f, g) /\ SumFunction(f) = g[S]
  BY SumRecursion
<1> DEFINE T == {n \in Nat : \E s \in SUBSET S : Cardinality(s) = n /\ ~ (g[s] <= n * c)}
<1>2. T = {}
  <2> SUFFICES ASSUME T # {} PROVE FALSE
    OBVIOUS
  <2>1. PICK n \in T : \A m \in T : n <= m
    BY NatLeast
  <2>2. PICK s \in SUBSET S : Cardinality(s) = n /\ ~ (g[s] <= n * c)
    OBVIOUS
  <2> DEFINE x == FirstOf(S)[s]
  <2>3. s # {}
    <3> SUFFICES ASSUME s = {} PROVE FALSE
      OBVIOUS
    <3>1. g[s] = 0 /\ n = 0
      BY <1>1, <2>2, FS_EmptySet DEF Sums
    <3> QED BY <2>2, <3>1
  <2>4. x \in s /\ x \in S
    BY <2>3, FirstOfPicks DEF Picks
  <2>5. g[s] = f[x] + g[s \ {x}]
    BY <1>1, <2>3 DEF Sums
  <2>6. f[x] \in Nat /\ f[x] <= c /\ g[s \ {x}] \in Nat
    BY <1>1, <2>4 DEF Sums
  <2> HIDE DEF x
  <2>7. IsFiniteSet(s) /\ IsFiniteSet(s \ {x}) /\ s \ {x} \in SUBSET S
    BY FS_Subset
  <2>8. Cardinality(s \ {x}) = n - 1 /\ n - 1 \in Nat
    <3>1. Cardinality(s \ {x}) = Cardinality(s) - 1
      BY <2>4, <2>7, FS_RemoveElement
    <3>2. Cardinality(s \ {x}) \in Nat
      BY <2>7, FS_CardinalityType
    <3> QED BY <2>2, <3>1, <3>2
  <2>9. ~ (g[s \ {x}] <= (n - 1) * c)
    <3>1. n * c = (n - 1) * c + c /\ (n - 1) * c \in Nat
      BY <2>8
    <3> QED BY <2>2, <2>5, <2>6, <3>1
  <2>10. n - 1 \in T
    BY <2>7, <2>8, <2>9
  <2>11. n <= n - 1
    <3> HIDE DEF T
    <3> QED BY <2>1, <2>10
  <2> QED BY <2>8, <2>11
<1>3. g[S] <= Cardinality(S) * c
  BY <1>2, FS_CardinalityType
<1> QED BY <1>1, <1>3

(* The largest of finitely many naturals, or 0 if there are none.          *)
LEMMA LargestBound ==
  ASSUME NEW S, NEW f, IsFiniteSet(S), f \in [S -> Nat]
  PROVE  /\ Max({0} \cup {f[x] : x \in S}) \in Nat
         /\ \A y \in S : f[y] <= Max({0} \cup {f[x] : x \in S})
<1> DEFINE image == {f[x] : x \in S}
<1>1. f \in Surjection(S, image)
  BY DEF Surjection
<1>2. IsFiniteSet(image)
  BY <1>1, FS_Surjection
<1>3. IsFiniteSet({0} \cup image)
  BY <1>2, FS_Singleton, FS_Union
<1>4. {0} \cup image \in SUBSET Int /\ {0} \cup image # {} /\ {0} \cup image \subseteq Nat
  OBVIOUS
<1>5. /\ Max({0} \cup image) \in {0} \cup image
      /\ \A y \in {0} \cup image : Max({0} \cup image) >= y
  BY <1>3, <1>4, FiniteMax
<1>6. \A x \in S : f[x] \in {0} \cup image /\ f[x] \in Nat
  OBVIOUS
<1> HIDE DEF image
<1>7. Max({0} \cup image) \in Nat
  BY <1>4, <1>5
<1>8. \A x \in S : f[x] <= Max({0} \cup image)
  BY <1>5, <1>6, <1>7
<1> QED BY <1>7, <1>8 DEF image

(* What a pod requests is natural, its memory not rounded down.            *)
LEMMA PodBounds ==
  ASSUME NEW pod, ValidRequests(pod)
  PROVE  /\ \A r : SumFunction(Requests(pod, r)) \in Nat
         /\ PodResourceRequests(pod).cpu = SumFunction(Requests(pod, "cpu"))
         /\ PodResourceRequests(pod).memory \in Nat
         /\ PodResourceRequests(pod).memory >= SumFunction(Requests(pod, "memory"))
         /\ PodGPURequests(pod) = SumFunction(Requests(pod, "gpu"))
<1> DEFINE S == DOMAIN pod.containers
           inMB == [i \in S |-> Megabytes(Requests(pod, "memory")[i])]
<1>1. IsFiniteSet(S)
  BY DEF ValidRequests
<1>2. \A r : Requests(pod, r) \in [S -> Nat]
  BY DEF ValidRequests, Requests
<1>3. \A i \in S : Megabytes(Requests(pod, "memory")[i]) \in Nat
                   /\ Requests(pod, "memory")[i] <= Megabytes(Requests(pod, "memory")[i])
  <2> SUFFICES ASSUME NEW i \in S
               PROVE  /\ Megabytes(Requests(pod, "memory")[i]) \in Nat
                      /\ Requests(pod, "memory")[i] <= Megabytes(Requests(pod, "memory")[i])
    OBVIOUS
  <2>1. Requests(pod, "memory")[i] \in Nat
    BY <1>2
  <2> QED BY <2>1, MegabytesBound
<1>4. inMB \in [S -> Nat] /\ \A i \in S : Requests(pod, "memory")[i] <= inMB[i]
  BY <1>3
<1> HIDE DEF S
<1>5. SumFunction(inMB) \in Nat /\ SumFunction(inMB) >= SumFunction(Requests(pod, "memory"))
  <2> HIDE DEF inMB
  <2>1. SumFunction(inMB) \in Nat /\ SumFunction(Requests(pod, "memory")) \in Nat
    BY <1>1, <1>2, <1>4, SumType
  <2>2. SumFunction(Requests(pod, "memory")) <= SumFunction(inMB)
    BY <1>1, <1>2, <1>4, SumBounds
  <2> QED BY <2>1, <2>2
<1>6. PodResourceRequests(pod).memory = SumFunction(inMB)
  BY DEF PodResourceRequests, S
<1>7. \A r : SumFunction(Requests(pod, r)) \in Nat
  BY <1>1, <1>2, SumType
<1> QED BY <1>5, <1>6, <1>7 DEF PodResourceRequests, PodGPURequests

(* The largest requests bound those of each pod.                           *)
LEMMA MostBounds ==
  ASSUME NEW pods, IsFiniteSet(pods), \A p \in pods : ValidRequests(p)
  PROVE  /\ MaxPodRequirements(pods) \in [cpu : Nat, memory : Nat, gpu : Nat]
         /\ \A p \in pods :
              /\ SumFunction(Requests(p, "cpu")) <= MaxPodRequirements(pods).cpu
              /\ SumFunction(Requests(p, "memory")) <= MaxPodRequirements(pods).memory
              /\ SumFunction(Requests(p, "gpu")) <= MaxPodRequirements(pods).gpu
<1> DEFINE cpu == [p \in pods |-> PodResourceRequests(p).cpu]
           memory == [p \in pods |-> PodResourceRequests(p).memory]
           gpu == [p \in pods |-> PodGPURequests(p)]
<1>1. cpu \in [pods -> Nat] /\ memory \in [pods -> Nat] /\ gpu \in [pods -> Nat]
  BY PodBounds
<1>2. /\ {PodResourceRequests(p).cpu : p \in pods} = {cpu[p] : p \in pods}
      /\ {PodResourceRequests(p).memory : p \in pods} = {memory[p] : p \in pods}
      /\ {PodGPURequests(p) : p \in pods} = {gpu[p] : p \in pods}
  OBVIOUS
<1>3. /\ MaxPodRequirements(pods).cpu = Max({0} \cup {cpu[p] : p \in pods})
      /\ MaxPodRequirements(pods).memory = Max({0} \cup {memory[p] : p \in pods})
      /\ MaxPodRequirements(pods).gpu = Max({0} \cup {gpu[p] : p \in pods})
      /\ MaxPodRequirements(pods) = [cpu |-> MaxPodRequirements(pods).cpu,
                                     memory |-> MaxPodRequirements(pods).memory,
                                     gpu |-> MaxPodRequirements(pods).gpu]
  BY <1>2 DEF MaxPodRequirements
<1>4. \A p \in pods : /\ SumFunction(Requests(p, "cpu")) = cpu[p]
                      /\ SumFunction(Requests(p, "memory")) <= memory[p]
                      /\ SumFunction(Requests(p, "gpu")) = gpu[p]
                      /\ SumFunction(Requests(p, "memory")) \in Nat
  BY PodBounds
<1> HIDE DEF cpu, memory, gpu
<1>5. /\ MaxPodRequirements(pods).cpu \in Nat
      /\ MaxPodRequirements(pods).memory \in Nat
      /\ MaxPodRequirements(pods).gpu \in Nat
      /\ \A p \in pods : /\ cpu[p] <= MaxPodRequirements(pods).cpu
                         /\ memory[p] <= MaxPodRequirements(pods).memory
                         /\ gpu[p] <= MaxPodRequirements(pods).gpu
  BY <1>1, <1>3, LargestBound
<1>6. \A p \in pods : SumFunction(Requests(p, "memory")) <= MaxPodRequirements(pods).memory
  BY <1>1, <1>4, <1>5
<1> QED BY <1>3, <1>4, <1>5, <1>6

(* A quotient rounded down, and the divisor taken that often.              *)
LEMMA DivBound ==
  ASSUME NEW a \in Nat, NEW b \in Nat, b > 0, NEW k \in Nat, k <= a \div b
  PROVE  k * b <= a
<1> DEFINE d == a \div b
<1>1. d \in Nat /\ d * b <= a
  BY SMT
<1>2. k <= d
  OBVIOUS
<1> HIDE DEF d
<1>3. k * b <= d * b
  BY <1>1, <1>2
<1>4. k * b \in Nat /\ d * b \in Nat
  BY <1>1
<1> QED BY <1>1, <1>3, <1>4

(* The pods-per-node estimate is at least 1 if there are pods, and the     *)
(* largest request taken that often fits the capacity if it fits once.     *)
LEMMA EstimateBounds ==
  ASSUME NEW pods, NEW capacity, IsFiniteSet(pods), \A p \in pods : ValidRequests(p),
         capacity.cpu \in Nat, capacity.memory \in Nat
  PROVE  /\ EstimatePodsPerNode(pods, capacity) \in Nat
         /\ pods # {} => EstimatePodsPerNode(pods, capacity) >= 1
         /\ pods # {} => \A r \in {"cpu", "memory"} :
              MaxPodRequirements(pods)[r] <= capacity[r] =>
                EstimatePodsPerNode(pods, capacity) * MaxPodRequirements(pods)[r] <= capacity[r]
<1> DEFINE most == MaxPodRequirements(pods)
           some == {x \in {"cpu", "memory"} : most[x] > 0}
           times == {capacity[r] \div most[r] : r \in some}
           k == EstimatePodsPerNode(pods, capacity)
<1>1. most.cpu \in Nat /\ most.memory \in Nat
  BY MostBounds
<1> HIDE DEF most
<1>2. times \subseteq Nat
  BY <1>1
<1>3. k = IF pods = {} THEN 0 ELSE IF times = {} THEN 1 ELSE Max({1, Min(times)})
  BY DEF EstimatePodsPerNode, most
<1>4. \A r \in some : capacity[r] \div most[r] \in times
  OBVIOUS
<1> HIDE DEF times, k
<1>5. times # {} => Min(times) \in Nat /\ \A t \in times : Min(times) <= t
  BY <1>2, NatLeast DEF Min
<1>6. ASSUME NEW x \in Nat
      PROVE  Max({1, x}) \in {1, x} /\ Max({1, x}) >= 1
  <2>1. IsFiniteSet({1}) /\ IsFiniteSet({x})
    BY FS_Singleton
  <2>2. {1, x} = {1} \cup {x}
    OBVIOUS
  <2>3. IsFiniteSet({1, x})
    BY <2>1, <2>2, FS_Union
  <2>4. {1, x} \in SUBSET Int /\ {1, x} # {}
    OBVIOUS
  <2> QED BY <2>3, <2>4, FiniteMax
<1>7. k \in Nat /\ (pods # {} => k >= 1)
  BY <1>3, <1>5, <1>6
<1>8. ASSUME pods # {}, NEW r \in {"cpu", "memory"}, most[r] <= capacity[r]
      PROVE  k * most[r] <= capacity[r]
  <2>1. most[r] \in Nat /\ capacity[r] \in Nat
    BY <1>1
  <2>2. CASE most[r] = 0 \/ k = 1
    BY <1>7, <1>8, <2>1, <2>2
  <2>3. CASE most[r] # 0 /\ k # 1
    <3>1. r \in some
      BY <2>1, <2>3
    <3>2. k = Min(times) /\ times # {}
      BY <1>3, <1>5, <1>6, <1>8, <2>3
    <3>3. k <= capacity[r] \div most[r]
      BY <1>4, <1>5, <3>1, <3>2
    <3> QED BY <1>7, <2>1, <2>3, <3>3, DivBound
  <2> QED BY <2>2, <2>3
<1> QED BY <1>7, <1>8 DEF k, most
=============================================================================
