--------------------------- MODULE MatchingProofs ---------------------------
(***************************************************************************)
(* Proofs about module Matching: which pool the walk of MatchPodToPool     *)
(* ends with, for every catalogue of pools and every pod.                  *)
(***************************************************************************)
EXTENDS Matching, SizingProofs

(* Pool p is to be preferred to pool q: it has more rules other than       *)
(* tolerations, or as many and an earlier name.                            *)
Preferred(p, q) ==
  \/ PoolSpecificityScore(p) > PoolSpecificityScore(q)
  \/ PoolSpecificityScore(p) = PoolSpecificityScore(q) /\ p < q

(* A walk over the pools up to n, as MatchPodToPool takes it.              *)
IsWalk(best, pod, pools, n) ==
  best = [q \in 0..n |->
            IF q = 0 THEN [pool |-> NoPool, score |-> -1]
            ELSE IF /\ q \in pools /\ PodMatchesPool(pod, q)
                    /\ Beats(PoolSpecificityScore(q), best[q - 1].score)
              THEN [pool |-> q, score |-> PoolSpecificityScore(q)]
              ELSE best[q - 1]]

(* The number of rules is a natural number.                                *)
LEMMA ScoreType ==
  ASSUME NEW q \in DOMAIN PoolSpec
  PROVE  PoolSpecificityScore(q) \in Nat
BY PoolAssumption, FS_CardinalityType DEF PoolSpecificityScore

(* The recursive definition of the walk has a solution of every length.    *)
LEMMA WalkExists ==
  ASSUME NEW pod, NEW pools, NEW n \in Nat
  PROVE  \E best : IsWalk(best, pod, pools, n)
<1> DEFINE T == {m \in Nat : ~ \E best : IsWalk(best, pod, pools, m)}
<1> SUFFICES ASSUME T # {} PROVE FALSE
  OBVIOUS
<1>1. PICK m \in T : \A k \in T : m <= k
  BY NatLeast
<1>2. m # 0
  <2> DEFINE first == [q \in 0..0 |-> [pool |-> NoPool, score |-> -1]]
  <2>1. IsWalk(first, pod, pools, 0)
    BY DEF IsWalk
  <2> QED BY <2>1
<1>3. m - 1 \in Nat /\ m \in Nat /\ m - 1 \notin T
  <2>1. m \in Nat /\ m - 1 \in Nat
    BY <1>2
  <2> HIDE DEF T
  <2>2. m - 1 \notin T
    BY <1>1, <2>1
  <2> QED BY <2>1, <2>2
<1>4. PICK b : IsWalk(b, pod, pools, m - 1)
  BY <1>3
<1> DEFINE Turn(q, best) ==
             IF /\ q \in pools /\ PodMatchesPool(pod, q)
                /\ Beats(PoolSpecificityScore(q), best.score)
               THEN [pool |-> q, score |-> PoolSpecificityScore(q)]
               ELSE best
           longer == [q \in 0..m |-> IF q < m THEN b[q] ELSE Turn(m, b[m - 1])]
<1>5. b = [q \in 0..(m - 1) |-> IF q = 0 THEN [pool |-> NoPool, score |-> -1]
                                ELSE Turn(q, b[q - 1])]
  BY <1>4 DEF IsWalk
<1>6. longer = [q \in 0..m |-> IF q = 0 THEN [pool |-> NoPool, score |-> -1]
                               ELSE Turn(q, longer[q - 1])]
  <2> SUFFICES ASSUME NEW q \in 0..m
               PROVE  longer[q] = IF q = 0 THEN [pool |-> NoPool, score |-> -1]
                                  ELSE Turn(q, longer[q - 1])
    OBVIOUS
  <2> HIDE DEF Turn
  <2>1. q \in Nat /\ q <= m
    BY <1>3
  <2>2. CASE q < m
    <3>1. q \in 0..(m - 1) /\ longer[q] = b[q]
      BY <1>3, <2>1, <2>2
    <3>2. q # 0 => longer[q - 1] = b[q - 1]
      BY <1>3, <2>1, <2>2
    <3> QED BY <1>5, <3>1, <3>2
  <2>3. CASE q = m
    <3>1. longer[m] = Turn(m, b[m - 1]) /\ longer[m - 1] = b[m - 1]
      BY <1>2, <1>3
    <3> QED BY <1>2, <2>3, <3>1
  <2> QED BY <1>3, <2>1, <2>2, <2>3
<1>7. IsWalk(longer, pod, pools, m)
  BY <1>6 DEF IsWalk
<1> QED BY <1>7

(* At every pool the walk holds the preferred one of those matched so far. *)
LEMMA WalkHoldsBest ==
  ASSUME NEW pod, NEW pools \in SUBSET DOMAIN PoolSpec, NEW n \in Nat, NEW best,
         IsWalk(best, pod, pools, n)
  PROVE  LET matching == {q \in pools : q <= n /\ PodMatchesPool(pod, q)}
         IN  IF matching = {} THEN best[n].pool = NoPool
             ELSE /\ best[n].pool \in matching
                  /\ \A q \in matching \ {best[n].pool} : Preferred(best[n].pool, q)
<1> DEFINE M(m) == {q \in pools : q <= m /\ PodMatchesPool(pod, q)}
           Holds(m) == /\ M(m) = {} => best[m] = [pool |-> NoPool, score |-> -1]
                       /\ M(m) # {} =>
                            /\ best[m].pool \in M(m)
                            /\ best[m] = [pool |-> best[m].pool,
                                          score |-> PoolSpecificityScore(best[m].pool)]
                            /\ \A q \in M(m) \ {best[m].pool} : Preferred(best[m].pool, q)
           T == {m \in 0..n : ~ Holds(m)}
<1>1. best[0] = [pool |-> NoPool, score |-> -1]
  BY DEF IsWalk
<1>2. \A m \in 0..n : m # 0 =>
        best[m] = IF /\ m \in pools /\ PodMatchesPool(pod, m)
                     /\ Beats(PoolSpecificityScore(m), best[m - 1].score)
                    THEN [pool |-> m, score |-> PoolSpecificityScore(m)]
                    ELSE best[m - 1]
  BY DEF IsWalk
<1>3. pools \subseteq Nat \ {0} /\ \A q \in pools : PoolSpecificityScore(q) \in Nat
  BY PoolAssumption, ScoreType
<1>4. ASSUME NEW m \in 0..n, \A k \in 0..n : k < m => Holds(k)
      PROVE  Holds(m)
  <2>1. CASE m = 0
    <3>1. M(0) = {}
      BY <1>3
    <3> QED BY <1>1, <2>1, <3>1
  <2>2. CASE m # 0
    <3>1. m - 1 \in 0..n /\ Holds(m - 1) /\ m \in Nat
      BY <1>4, <2>2
    <3>2. M(m) = IF m \in pools /\ PodMatchesPool(pod, m) THEN M(m - 1) \cup {m} ELSE M(m - 1)
      BY <1>3, <3>1
    <3>3. \A q \in M(m - 1) : q < m /\ q \in Nat /\ PoolSpecificityScore(q) \in Nat
      BY <1>3, <3>1
    <3> DEFINE old == best[m - 1]
    <3>4. CASE ~ (m \in pools /\ PodMatchesPool(pod, m))
      <4>1. M(m) = M(m - 1) /\ best[m] = old
        BY <1>2, <2>2, <3>2, <3>4
      <4> HIDE DEF M
      <4> QED BY <3>1, <4>1
    <3>5. CASE m \in pools /\ PodMatchesPool(pod, m)
      <4>1. M(m) = M(m - 1) \cup {m} /\ PoolSpecificityScore(m) \in Nat
        BY <1>3, <3>2, <3>5
      <4>2. best[m] = IF Beats(PoolSpecificityScore(m), old.score)
                        THEN [pool |-> m, score |-> PoolSpecificityScore(m)] ELSE old
        BY <1>2, <2>2, <3>5
      <4>3. CASE M(m - 1) = {}
        <5>1. old = [pool |-> NoPool, score |-> -1]
          BY <3>1, <4>3
        <5>2. best[m] = [pool |-> m, score |-> PoolSpecificityScore(m)]
          BY <4>1, <4>2, <5>1 DEF Beats
        <5>3. M(m) = {m}
          BY <4>1, <4>3
        <5> HIDE DEF M
        <5> QED BY <5>2, <5>3
      <4>4. CASE M(m - 1) # {}
        <5>1. /\ old.pool \in M(m - 1)
              /\ old = [pool |-> old.pool, score |-> PoolSpecificityScore(old.pool)]
              /\ \A q \in M(m - 1) \ {old.pool} : Preferred(old.pool, q)
          BY <3>1, <4>4
        <5>2. /\ old.pool \in Nat /\ old.pool < m
              /\ PoolSpecificityScore(old.pool) \in Nat
              /\ old.score = PoolSpecificityScore(old.pool)
          BY <3>3, <5>1
        <5> HIDE DEF M, old
        <5>3. CASE PoolSpecificityScore(m) > old.score
          <6>1. best[m] = [pool |-> m, score |-> PoolSpecificityScore(m)] /\ best[m].pool = m
            BY <4>2, <5>3 DEF Beats
          <6>2. ASSUME NEW q \in M(m) \ {m} PROVE Preferred(m, q)
            <7>1. q \in M(m - 1) /\ PoolSpecificityScore(q) \in Nat
              BY <3>3, <4>1
            <7>2. PoolSpecificityScore(q) <= PoolSpecificityScore(old.pool)
              BY <5>1, <5>2, <7>1 DEF Preferred
            <7> QED BY <4>1, <5>2, <5>3, <7>1, <7>2 DEF Preferred
          <6>3. m \in M(m)
            BY <4>1
          <6> QED BY <6>1, <6>2, <6>3
        <5>4. CASE ~ (PoolSpecificityScore(m) > old.score)
          <6>1. best[m] = old
            BY <4>2, <5>4 DEF Beats
          <6>2. Preferred(old.pool, m)
            BY <4>1, <5>2, <5>4, <3>1 DEF Preferred
          <6> QED BY <4>1, <5>1, <6>1, <6>2
        <5> QED BY <5>3, <5>4
      <4> QED BY <4>3, <4>4
    <3> QED BY <3>4, <3>5
  <2> QED BY <2>1, <2>2
<1>5. T = {}
  <2> SUFFICES ASSUME T # {} PROVE FALSE
    OBVIOUS
  <2>1. T \in SUBSET Nat
    OBVIOUS
  <2>2. PICK m \in T : \A k \in T : m <= k
    BY <2>1, NatLeast
  <2> HIDE DEF Holds
  <2>3. \A k \in 0..n : k < m => Holds(k)
    BY <2>1, <2>2
  <2> QED BY <1>4, <2>3
<1>6. Holds(n)
  BY <1>5
<1> QED BY <1>6

(* matching.go, MatchPodToPool: the pool returned matches and is preferred *)
(* to every other one that does; there is none only if no pool matches.    *)
THEOREM BestMatch ==
  ASSUME NEW pod, NEW pools \in SUBSET DOMAIN PoolSpec
  PROVE  LET matching == {q \in pools : PodMatchesPool(pod, q)}
             chosen   == MatchPodToPool(pod, pools)
         IN  IF matching = {} THEN chosen = NoPool
             ELSE /\ chosen \in matching
                  /\ \A q \in matching \ {chosen} : Preferred(chosen, q)
<1> DEFINE last == Max(pools \cup {0})
           best == CHOOSE b : IsWalk(b, pod, pools, last)
<1>1. pools \subseteq Nat /\ IsFiniteSet(pools)
  BY PoolAssumption, FS_Subset
<1>2. last \in Nat /\ \A q \in pools : q <= last
  <2>1. IsFiniteSet(pools \cup {0}) /\ pools \cup {0} \in SUBSET Int /\ pools \cup {0} # {}
    BY <1>1, FS_AddElement
  <2>2. last \in pools \cup {0} /\ \A q \in pools \cup {0} : last >= q
    BY <2>1, FiniteMax
  <2> HIDE DEF last
  <2> QED BY <1>1, <2>2
<1>3. MatchPodToPool(pod, pools) = best[last].pool
  BY DEF MatchPodToPool, IsWalk
<1> HIDE DEF last
<1>4. IsWalk(best, pod, pools, last)
  BY <1>2, WalkExists
<1> HIDE DEF best
<1>5. {q \in pools : q <= last /\ PodMatchesPool(pod, q)} = {q \in pools : PodMatchesPool(pod, q)}
  BY <1>2
<1> QED BY <1>2, <1>3, <1>4, <1>5, WalkHoldsBest
=============================================================================
