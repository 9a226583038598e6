------------------------- MODULE ProvisioningRound -------------------------
(***************************************************************************)
(* What one reconcile of the provisioner decides (provisioner_reconciler.go *)
(* with matching.go, instance_selector.go and batch.go): which pool its    *)
(* pod goes to, which other pods it provides for, with which instance      *)
(* types and with how many nodes.  There are several pools here and pods   *)
(* of different shapes; the nodes' later life, the caches and the debounce *)
(* period are those of module BurstController.  status.nodes is reduced to *)
(* its length, activeNodes + pendingNodes.                                 *)
(***************************************************************************)
EXTENDS Matching, InstanceSelector

CONSTANTS
  Pods,           \* pods that may turn unschedulable
  PodShape,       \* the pod specs: a function from names of shapes to records
  InitialPools,   \* the pools that exist at the start
  FaultKinds      \* kinds of failure: read, launch, status, annotate

ASSUME RoundAssumption ==
  /\ InitialPools \subseteq DOMAIN PoolSpec
  /\ DOMAIN PodShape \cap {"unseen", "gone"} = {}
  /\ IsFiniteSet(Pods)
  /\ \A q \in DOMAIN PoolSpec : /\ PoolSpec[q].maxNodes \in Nat
                               /\ IsFiniteSet(PoolSpec[q].instanceTypes)
  /\ \A s \in DOMAIN PodShape : ValidRequests(PodShape[s])

VARIABLES
  existing,   \* pools in the API server
  current,    \* activeNodes + pendingNodes of each pool
  shape,      \* shape of each unschedulable pod, or "unseen" or "gone"
  queue,      \* workqueue of the provisioner
  marked,     \* pods annotated burst.homelab.dev/provisioned=true
  round       \* the worker: what the reconcile in progress has worked out

vars == <<existing, current, shape, queue, marked, round>>

Waiting    == {p \in Pods : shape[p] \in DOMAIN PodShape}
PodSpec(p) == PodShape[shape[p]]
Room(q)    == PoolSpec[q].maxNodes - current[q]
PoolOf(p)  == MatchPodToPool(PodSpec(p), existing)

RoundIdle == [pc |-> "idle", pod |-> "none", pool |-> NoPool, batch |-> <<>>,
              candidates |-> <<>>, room |-> 0, needed |-> 0, left |-> 0,
              launched |-> <<>>, stale |-> FALSE]
----------------------------------------------------------------------------
(* A pod of some shape turns unschedulable. *)
PodArrives(p, s) ==
  /\ shape[p] = "unseen"
  /\ shape' = [shape EXCEPT ![p] = s]
  /\ queue' = queue \cup {p}
  /\ UNCHANGED <<existing, current, marked, round>>

(* It is bound to a node, or deleted. *)
PodLeaves(p) ==
  /\ p \in Waiting
  /\ shape' = [shape EXCEPT ![p] = "gone"]
  /\ UNCHANGED <<existing, current, queue, marked, round>>

(* An administrator creates a pool; the provisioner does not watch pools. *)
CreatePool(q) ==
  /\ q \in DOMAIN PoolSpec \ existing
  /\ existing' = existing \cup {q}
  /\ UNCHANGED <<current, shape, queue, marked, round>>

(* The reaper or the orphan detector takes a node of the pool away, which  *)
(* makes the copy old that a round has been sized on.                      *)
NodeRemoved(q) ==
  /\ current[q] > 0
  /\ current' = [current EXCEPT ![q] = @ - 1]
  /\ round' = [round EXCEPT !.stale = @ \/ (round.pc = "launch" /\ round.pool = q)]
  /\ UNCHANGED <<existing, shape, queue, marked>>
----------------------------------------------------------------------------
(* The early returns without a requeue: the pod does not wait any more, no *)
(* pool matches it, or it was provided for before.                         *)
RoundSkip(p) ==
  /\ round.pc = "idle" /\ p \in queue
  /\ p \in Waiting => PoolOf(p) = NoPool \/ p \in marked
  /\ queue' = queue \ {p}
  /\ UNCHANGED <<existing, current, shape, marked, round>>

(* The pod is matched to a pool. *)
RoundMatch(p) ==
  /\ round.pc = "idle" /\ p \in queue
  /\ p \in Waiting /\ PoolOf(p) # NoPool /\ p \notin marked
  /\ queue' = queue \ {p}
  /\ round' = [RoundIdle EXCEPT !.pc = "size", !.pod = p, !.pool = PoolOf(p)]
  /\ UNCHANGED <<existing, current, shape, marked>>

(* All the waiting pods that this pool would match if it were the only     *)
(* one, those already provided for included.                               *)
MatchingPods(q) == {p \in Waiting : MatchPodToPool(PodSpec(p), {q}) # NoPool}

(* What the sizing may come to; no candidate type or no room ends it. *)
Sizings(q) ==
  LET pods == MatchingPods(q)
  IN  {[batch      |-> [p \in pods |-> shape[p]],
        candidates |-> c,
        needed     |-> CalculateNodesNeeded(
                         Cardinality(pods),
                         EstimatePodsPerNode({PodSpec(p) : p \in pods},
                                             GetInstanceCapacity(Head(c).name)),
                         current[q], PoolSpec[q].maxNodes)]
       : c \in SelectInstanceTypes(PoolSpec[q], {PodSpec(p) : p \in pods}) \ {<<>>}}

RoundSize ==
  /\ round.pc = "size"
  /\ \E s \in Sizings(round.pool) :
       /\ s.needed > 0
       /\ round' = [round EXCEPT !.pc = "launch", !.batch = s.batch,
                                 !.candidates = s.candidates,
                                 !.room = Room(round.pool),
                                 !.needed = s.needed, !.left = s.needed]
  /\ UNCHANGED <<existing, current, shape, queue, marked>>

(* The pool is full, no type fits, or nobody waits: RequeueAfter.  A read  *)
(* (of the pool, the pods, the Talos secret) that fails is retried as well. *)
RoundTurnedAway ==
  /\ round.pc = "size"
  /\ \/ "read" \in FaultKinds
     \/ Room(round.pool) <= 0
     \/ <<>> \in SelectInstanceTypes(PoolSpec[round.pool],
                                     {PodSpec(p) : p \in MatchingPods(round.pool)})
     \/ \E s \in Sizings(round.pool) : s.needed <= 0
  /\ queue' = queue \cup {round.pod}
  /\ round' = RoundIdle
  /\ UNCHANGED <<existing, current, shape, marked>>

(* What RunInstances may answer: an instance, no capacity, another error. *)
Answers == {"ok"} \cup (IF "launch" \in FaultKinds
                          THEN {"InsufficientInstanceCapacity", "UnauthorizedOperation"}
                          ELSE {})

(* One turn of the launch loop. *)
RoundLaunch ==
  /\ round.pc = "launch" /\ round.left > 0
  /\ \E type \in {LaunchWithFallback(round.candidates, answer)
                    : answer \in [{c.name : c \in ToSet(round.candidates)} -> Answers]} :
       round' = [round EXCEPT
                   !.left = @ - 1,
                   !.launched = IF type = "none" THEN @ ELSE Append(@, type)]
  /\ UNCHANGED <<existing, current, shape, queue, marked>>

RoundPersist ==
  /\ round.pc = "launch" /\ round.left = 0
  /\ ~ round.stale
  /\ current' = [current EXCEPT ![round.pool] = @ + Len(round.launched)]
  /\ round' = [round EXCEPT !.pc = "annotate"]
  /\ UNCHANGED <<existing, shape, queue, marked>>

(* A conflict or another error of the status write forgets the launches    *)
(* and retries the pod.                                                    *)
RoundPersistFails ==
  /\ round.pc = "launch" /\ round.left = 0
  /\ round.stale \/ "status" \in FaultKinds
  /\ queue' = queue \cup {round.pod}
  /\ round' = RoundIdle
  /\ UNCHANGED <<existing, current, shape, marked>>

(* A failed annotation is only logged. *)
RoundAnnotate ==
  /\ round.pc = "annotate"
  /\ \/ marked' = marked \cup ({round.pod} \cap Waiting)
     \/ "annotate" \in FaultKinds /\ UNCHANGED marked
  /\ round' = RoundIdle
  /\ UNCHANGED <<existing, current, shape, queue>>

RoundInit ==
  /\ existing = InitialPools
  /\ current = [q \in DOMAIN PoolSpec |-> 0]
  /\ shape = [p \in Pods |-> "unseen"]
  /\ queue = {} /\ marked = {}
  /\ round = RoundIdle

RoundStep ==
  \/ \E p \in Pods : RoundSkip(p) \/ RoundMatch(p)
  \/ RoundSize \/ RoundTurnedAway \/ RoundLaunch
  \/ RoundPersist \/ RoundPersistFails \/ RoundAnnotate

RoundNext ==
  \/ \E p \in Pods : PodLeaves(p) \/ \E s \in DOMAIN PodShape : PodArrives(p, s)
  \/ \E q \in DOMAIN PoolSpec : CreatePool(q) \/ NodeRemoved(q)
  \/ RoundStep

RoundSpec == RoundInit /\ [][RoundNext]_vars

(* The worker goes on, and the workqueue passes over no pod for ever. *)
RoundFairSpec ==
  /\ RoundSpec
  /\ WF_vars(RoundStep)
  /\ \A p \in Pods : SF_vars(RoundSkip(p) \/ RoundMatch(p))
----------------------------------------------------------------------------
(* Every variable stays in its type; no pool's count passes its maxNodes. *)
RoundTypeOK ==
  /\ existing \subseteq DOMAIN PoolSpec
  /\ \A q \in DOMAIN PoolSpec : current[q] \in 0..PoolSpec[q].maxNodes
  /\ shape \in [Pods -> DOMAIN PodShape \cup {"unseen", "gone"}]
  /\ queue \subseteq Pods /\ marked \subseteq Pods
  /\ round.pc \in {"idle", "size", "launch", "annotate"}
  /\ round.pod \in Pods \cup {"none"}
  /\ round.pool \in DOMAIN PoolSpec \cup {NoPool}
  /\ round.stale \in BOOLEAN
  /\ Len(round.launched) + round.left <= round.needed

(* matching.go: among the pools that match a pod the one with most rules   *)
(* wins, of several such the first by name, and there is no answer only if *)
(* none matches; stated without the walk over the sorted list.             *)
MostSpecific ==
  \A p \in Waiting :
    LET matching == {q \in existing : PodMatchesPool(PodSpec(p), q)}
    IN  IF matching = {} THEN PoolOf(p) = NoPool
        ELSE /\ PoolOf(p) \in matching
             /\ \A q \in matching \ {PoolOf(p)} :
                  \/ PoolSpecificityScore(PoolOf(p)) > PoolSpecificityScore(q)
                  \/ /\ PoolSpecificityScore(PoolOf(p)) = PoolSpecificityScore(q)
                     /\ PoolOf(p) < q

(* What a pod asks of its node, in the units of the user: the sum over the *)
(* containers, MiB left MiB.                                               *)
Asks(s, resource) == SumFunction(Requests(PodShape[s], resource))

Resources == {"cpu", "memory", "gpu"}

(* A node of the type holds these pods together. *)
Holds(type, batch, pods) ==
  \A r \in Resources :
    SumFunction([p \in pods |-> Asks(batch[p], r)]) <= InstanceCapacities[type][r]

(* Every instance of a known type that a round starts, also after falling  *)
(* back on a later candidate, can hold each pod the round provides for,    *)
(* although requests and capacities are compared in different units.       *)
LaunchedFits ==
  \A i \in DOMAIN round.launched :
    Known(round.launched[i]) =>
      \A p \in DOMAIN round.batch : Holds(round.launched[i], round.batch, {p})

(* A round that was not cut short by maxNodes, in which no launch failed   *)
(* or fell back on a type with less memory than the first candidate, and   *)
(* that has no pod with a GPU started enough: its batch can be packed on   *)
(* its nodes, although it was sized by the largest requests alone, and for *)
(* the first candidate alone.                                              *)
RoundSuffices ==
  /\ round.pc = "annotate" /\ round.needed < round.room
  /\ Len(round.launched) = round.needed
  /\ \A i \in DOMAIN round.launched :
       /\ Known(round.launched[i])
       /\ InstanceCapacities[round.launched[i]].memory
            >= GetInstanceCapacity(Head(round.candidates).name).memory
  /\ \A p \in DOMAIN round.batch : Asks(round.batch[p], "gpu") = 0
  =>
  \E place \in [DOMAIN round.batch -> DOMAIN round.launched] :
    \A i \in DOMAIN round.launched :
      Holds(round.launched[i], round.batch, {p \in DOMAIN round.batch : place[p] = i})
----------------------------------------------------------------------------
(* What the documentation and the comments say of the program, and the     *)
(* program does not keep.                                                  *)

(* provisioner_reconciler.go: the annotation "prevents double-provisioning *)
(* from race conditions": there are never more nodes than pods came.       *)
OneNodePerPod ==
  SumFunction(current) <= Cardinality({p \in Pods : shape[p] # "unseen"})

(* README: the selection "respects kubernetes.io/arch node affinity": what *)
(* a round starts for a pod that requires an architecture has it.          *)
ArchRespected ==
  LET s == round.batch[round.pod]
  IN  round.pod \in DOMAIN round.batch /\ PodArchitecture(PodShape[s]) # "" =>
        \A i \in DOMAIN round.launched :
          Known(round.launched[i]) =>
            InstanceCapacities[round.launched[i]].arch = PodArchitecture(PodShape[s])

(* A waiting pod that one of its pool's types could hold, while the        *)
(* controller has no node at all.                                          *)
Unserved(p) ==
  /\ p \in Waiting /\ PoolOf(p) # NoPool
  /\ \E t \in ResolveInstanceTypes(PoolSpec[PoolOf(p)]) :
       InstanceFits(t, MaxPodRequirements({PodSpec(p)}), PodArchitecture(PodSpec(p)))
  /\ SumFunction(current) = 0

(* README: the controller provisions instances for unschedulable pods; one *)
(* that keeps waiting does not stay unserved.                              *)
PodGetsNode == \A p \in Pods : Unserved(p) ~> ~ Unserved(p)
=============================================================================
