------------------------------ MODULE Matching ------------------------------
(***************************************************************************)
(* Which BurstNodePool an unschedulable pod goes to                        *)
(* (internal/controller/matching.go).                                      *)
(*                                                                         *)
(* A pod is a record: tolerations, a set of [key, value]; terms, the node  *)
(* selector terms of its required node affinity (<<>> when it has none),   *)
(* each a sequence of expressions [key, op, values]; containers, a         *)
(* sequence of [requests, limits], each a record from resource name to     *)
(* amount.  A pool is a natural number, its place in the alphabetical      *)
(* order of the names.                                                     *)
(***************************************************************************)
EXTENDS Integers, Sequences, FiniteSets, SequencesExt

CONSTANT PoolSpec   \* spec of each pool that exists or may be created

ASSUME PoolAssumption ==
  /\ DOMAIN PoolSpec \subseteq Nat \ {0} /\ IsFiniteSet(DOMAIN PoolSpec)
  /\ \A q \in DOMAIN PoolSpec : /\ IsFiniteSet(DOMAIN PoolSpec[q].rules.labels)
                               /\ IsFiniteSet(PoolSpec[q].rules.resources)

(* The absence of a pool. *)
NoPool == 0

(* Some toleration has the key and, for Equal, the value; the operator of  *)
(* the pod's own toleration is not looked at.                              *)
PodHasToleration(pod, rule) ==
  \E t \in pod.tolerations :
    /\ t.key = rule.key
    /\ \/ rule.op = "Exists"
       \/ rule.op = "Equal" /\ t.value = rule.value

(* The term names every label, with its value or with Exists. *)
TermMatchesLabels(term, labels) ==
  \A key \in DOMAIN labels : \E i \in DOMAIN term :
    /\ term[i].key = key
    /\ \/ term[i].op = "In" /\ labels[key] \in ToSet(term[i].values)
       \/ term[i].op = "Exists"

PodHasNodeAffinityLabels(pod, labels) ==
  \E i \in DOMAIN pod.terms : TermMatchesLabels(pod.terms[i], labels)

PodMatchesResourceRule(pod, rule) ==
  LET hasResource == \E i \in DOMAIN pod.containers :
                       rule.resource \in DOMAIN pod.containers[i].requests
                                           \cup DOMAIN pod.containers[i].limits
  IN  \/ rule.op = "Exists" /\ hasResource
      \/ rule.op = "DoesNotExist" /\ ~ hasResource

PodMatchesPool(pod, q) ==
  LET rules == PoolSpec[q].rules
  IN  /\ \A rule \in rules.tolerations : PodHasToleration(pod, rule)
      /\ DOMAIN rules.labels # {} => PodHasNodeAffinityLabels(pod, rules.labels)
      /\ \A rule \in rules.resources : PodMatchesResourceRule(pod, rule)

(* The number of rules other than tolerations. *)
PoolSpecificityScore(q) ==
  Cardinality(DOMAIN PoolSpec[q].rules.labels) + Cardinality(PoolSpec[q].rules.resources)

(* Mutation of Beats: the last of several equally specific pools wins. *)
BeatsOrTies(score, bestScore) == score >= bestScore

Beats(score, bestScore) == score > bestScore

(* Walks over the pools in the order of their names; best[q] is the best   *)
(* of those up to q.                                                       *)
MatchPodToPool(pod, pools) ==
  LET last == Max(pools \cup {0})
      best[q \in 0..last] ==
        IF q = 0 THEN [pool |-> NoPool, score |-> -1]
        ELSE IF /\ q \in pools /\ PodMatchesPool(pod, q)
                /\ Beats(PoolSpecificityScore(q), best[q - 1].score)
          THEN [pool |-> q, score |-> PoolSpecificityScore(q)]
          ELSE best[q - 1]
  IN  best[last].pool
=============================================================================
