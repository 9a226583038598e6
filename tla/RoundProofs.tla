---------------------------- MODULE RoundProofs ----------------------------
(***************************************************************************)
(* Proofs about ProvisioningRound, for every catalogue of pools, instance  *)
(* types and pod shapes and every number of pods: the pool of each pod,    *)
(* the room of each pool, and what the instances of a round can hold.      *)
(***************************************************************************)
EXTENDS ProvisioningRound, MatchingProofs

(* The instance types that some pool lists. *)
Types == UNION {ResolveInstanceTypes(PoolSpec[q]) : q \in DOMAIN PoolSpec}

TypeNames == {t.name : t \in Types}

(* Which pods a round may provide for, and their shapes. *)
Batches == UNION {[D -> DOMAIN PodShape] : D \in SUBSET Pods}

RoundState ==
  [pc : {"idle", "size", "launch", "annotate"}, pod : Pods \cup {"none"},
   pool : DOMAIN PoolSpec \cup {NoPool}, batch : Batches,
   candidates : Seq(Types), room : Int, needed : Nat, left : Nat,
   launched : Seq(TypeNames), stale : BOOLEAN]

Typed ==
  /\ existing \in SUBSET DOMAIN PoolSpec
  /\ current \in [DOMAIN PoolSpec -> Nat]
  /\ shape \in [Pods -> DOMAIN PodShape \cup {"unseen", "gone"}]
  /\ queue \in SUBSET Pods /\ marked \in SUBSET Pods
  /\ round \in RoundState
  /\ round.pc # "idle" => round.pod \in Pods /\ round.pool \in DOMAIN PoolSpec

(* What a round still may launch has room below maxNodes: removals only    *)
(* add to it, and no other round runs meanwhile.                           *)
RoomKept ==
  /\ \A q \in DOMAIN PoolSpec : current[q] <= PoolSpec[q].maxNodes
  /\ round.pc = "launch" =>
       current[round.pool] + Len(round.launched) + round.left
         <= PoolSpec[round.pool].maxNodes
  /\ Len(round.launched) + round.left <= round.needed

(* Each candidate of a known type holds each pod of the batch. *)
CandidatesFit ==
  \A i \in DOMAIN round.candidates : Known(round.candidates[i].name) =>
    \A p \in DOMAIN round.batch : Holds(round.candidates[i].name, round.batch, {p})

(* Only candidates are launched. *)
LaunchedCandidates ==
  \A i \in DOMAIN round.launched :
    \E j \in DOMAIN round.candidates : round.launched[i] = round.candidates[j].name

(* No known candidate has less CPU than the first. *)
LeastFirst(candidates) ==
  LET first == Head(candidates).name
  IN  \A i \in DOMAIN candidates : Known(candidates[i].name) =>
        /\ Known(first)
        /\ InstanceCapacities[first].cpu <= InstanceCapacities[candidates[i].name].cpu

(* Neither the batch nor the order of nodes is empty, the largest requests *)
(* fit the first candidate, no later candidate has less CPU, and the order *)
(* is what the estimate asks for unless room is short.                     *)
SizedFor(batch, candidates, needed, room) ==
  LET specs == {PodShape[batch[p]] : p \in DOMAIN batch}
      first == Head(candidates).name
  IN  /\ DOMAIN batch # {} /\ needed > 0
      /\ Known(first) => \A r \in {"cpu", "memory", "gpu"} :
           MaxPodRequirements(specs)[r] <= InstanceCapacities[first][r]
      /\ LeastFirst(candidates)
      /\ needed < room =>
           needed = CeilDiv(Cardinality(DOMAIN batch),
                            EstimatePodsPerNode(specs, GetInstanceCapacity(first)))

Sized ==
  round.pc \in {"launch", "annotate"} =>
    SizedFor(round.batch, round.candidates, round.needed, round.room)

(* Nothing is launched before the round is sized. *)
Unstarted == round.pc = "size" => round.launched = <<>>

RoundInv == Typed /\ RoomKept /\ CandidatesFit /\ LaunchedCandidates /\ Unstarted /\ Sized
----------------------------------------------------------------------------
(* The selection is a sequence of types that the pool lists and that pass  *)
(* the filters.                                                            *)
LEMMA SelectedFit ==
  ASSUME NEW q \in DOMAIN PoolSpec, NEW pods,
         NEW c \in SelectInstanceTypes(PoolSpec[q], pods)
  PROVE  /\ c \in Seq(Types)
         /\ \E arch : \A i \in DOMAIN c : InstanceFits(c[i], MaxPodRequirements(pods), arch)
<1> DEFINE listed == ResolveInstanceTypes(PoolSpec[q])
           most == MaxPodRequirements(pods)
           Fits(arch) == {t \in listed : InstanceFits(t, most, arch)}
<1>1. PICK arch \in RequiredArchitecture(pods) : c \in SetToSeqs(Fits(arch))
  BY DEF SelectInstanceTypes
<1>2. c \in [1..Cardinality(Fits(arch)) -> Fits(arch)]
  BY <1>1 DEF SetToSeqs
<1>3. IsFiniteSet(listed)
  BY RoundAssumption, FS_Singleton, FS_EmptySet DEF ResolveInstanceTypes
<1>4. Cardinality(Fits(arch)) \in Nat
  <2>1. Fits(arch) \in SUBSET listed
    OBVIOUS
  <2> QED BY <1>3, <2>1, FS_Subset, FS_CardinalityType
<1>5. Fits(arch) \subseteq Types
  BY DEF Types
<1>6. \A i \in DOMAIN c : InstanceFits(c[i], most, arch)
  BY <1>2
<1> HIDE DEF Fits
<1>7. c \in Seq(Types)
  BY <1>2, <1>4, <1>5
<1> QED BY <1>6, <1>7

(* A selection that is not empty begins with a type of the least CPU. *)
LEMMA SelectedSorted ==
  ASSUME NEW q \in DOMAIN PoolSpec, NEW pods,
         NEW c \in SelectInstanceTypes(PoolSpec[q], pods), c # <<>>
  PROVE  LeastFirst(c)
<1>1. c \in Seq(Types)
  BY SelectedFit
<1>2. 1 \in DOMAIN c /\ Head(c) = c[1] /\ \A i \in DOMAIN c : i \in Nat /\ (i # 1 => 1 < i)
  BY <1>1
<1>3. \A i, j \in DOMAIN c :
        i < j => ~ (SmallerType(c[j], c[i]) /\ ~ SmallerType(c[i], c[j]))
  BY DEF SelectInstanceTypes
<1>4. ASSUME NEW i \in DOMAIN c, Known(c[i].name)
      PROVE  /\ Known(c[1].name)
             /\ InstanceCapacities[c[1].name].cpu <= InstanceCapacities[c[i].name].cpu
  <2>1. CASE i = 1
    <3>1. InstanceCapacities[c[1].name].cpu \in Nat
      BY <1>4, <2>1, CapacityAssumption DEF Known
    <3> QED BY <1>4, <2>1, <3>1
  <2>2. CASE i # 1
    <3>1. ~ (SmallerType(c[i], c[1]) /\ ~ SmallerType(c[1], c[i]))
      BY <1>2, <1>3, <2>2
    <3>2. Known(c[1].name)
      BY <1>4, <3>1 DEF SmallerType
    <3>3. InstanceCapacities[c[1].name].cpu \in Nat /\ InstanceCapacities[c[i].name].cpu \in Nat
      BY <1>4, <3>2, CapacityAssumption DEF Known
    <3>4. ~ (InstanceCapacities[c[i].name].cpu < InstanceCapacities[c[1].name].cpu)
      BY <1>4, <3>1, <3>2, <3>3 DEF SmallerType
    <3> QED BY <3>2, <3>3, <3>4
  <2> QED BY <2>1, <2>2
<1> QED BY <1>2, <1>4 DEF LeastFirst

(* A launch yields a candidate. *)
LEMMA LaunchedCandidate ==
  ASSUME NEW candidates \in Seq(Types), NEW answer,
         LaunchWithFallback(candidates, answer) # "none"
  PROVE  \E j \in DOMAIN candidates :
           LaunchWithFallback(candidates, answer) = candidates[j].name
BY DEF LaunchWithFallback

(* A known type that passes the filters for some pods holds each of them.  *)
LEMMA FitHolds ==
  ASSUME NEW pods, IsFiniteSet(pods), \A p \in pods : ValidRequests(p),
         NEW type, NEW arch, Known(type.name),
         InstanceFits(type, MaxPodRequirements(pods), arch)
  PROVE  /\ \A r \in {"cpu", "memory", "gpu"} :
              MaxPodRequirements(pods)[r] <= InstanceCapacities[type.name][r]
         /\ \A p \in pods, r \in Resources :
              SumFunction(Requests(p, r)) <= InstanceCapacities[type.name][r]
<1> DEFINE most == MaxPodRequirements(pods)
           cap == InstanceCapacities[type.name]
<1>1. most \in [cpu : Nat, memory : Nat, gpu : Nat]
  BY MostBounds
<1>2. cap.cpu \in Nat /\ cap.memory \in Nat /\ cap.gpu \in Nat
  BY CapacityAssumption DEF Known
<1>3. most.gpu > 0 => cap.gpu >= most.gpu
  BY DEF InstanceFits
<1>4. cap.cpu >= most.cpu /\ cap.memory >= most.memory
  BY DEF InstanceFits
<1>5. \A p \in pods :
        /\ SumFunction(Requests(p, "cpu")) <= most.cpu
        /\ SumFunction(Requests(p, "memory")) <= most.memory
        /\ SumFunction(Requests(p, "gpu")) <= most.gpu
        /\ \A r : SumFunction(Requests(p, r)) \in Nat
  BY MostBounds, PodBounds
<1> HIDE DEF most, cap
<1>6. \A r \in {"cpu", "memory", "gpu"} : most[r] <= cap[r]
  BY <1>1, <1>2, <1>3, <1>4
<1>7. \A p \in pods, r \in Resources : SumFunction(Requests(p, r)) <= cap[r]
  BY <1>1, <1>2, <1>5, <1>6 DEF Resources
<1> QED BY <1>6, <1>7 DEF most, cap

(* One pod alone is held if each of its requests is. *)
LEMMA HoldsOne ==
  ASSUME NEW type, NEW batch, NEW p, batch[p] \in DOMAIN PodShape,
         \A r \in Resources : Asks(batch[p], r) <= InstanceCapacities[type][r]
  PROVE  Holds(type, batch, {p})
<1> SUFFICES ASSUME NEW r \in Resources
             PROVE  SumFunction([x \in {p} |-> Asks(batch[x], r)]) <= InstanceCapacities[type][r]
  BY DEF Holds
<1>1. ValidRequests(PodShape[batch[p]])
  BY RoundAssumption
<1>2. Asks(batch[p], r) \in Nat
  BY <1>1, PodBounds DEF Asks
<1> DEFINE f == [x \in {p} |-> Asks(batch[x], r)]
<1>3. f \in [{p} -> Nat] /\ f[p] = Asks(batch[p], r)
  BY <1>2
<1> HIDE DEF f
<1>4. SumFunction(f) = Asks(batch[p], r)
  BY <1>3, SumSingle
<1> QED BY <1>4 DEF f

(* The pool found for a pod exists. *)
LEMMA PoolFound ==
  ASSUME Typed, NEW p, PoolOf(p) # NoPool
  PROVE  PoolOf(p) \in DOMAIN PoolSpec
<1>1. existing \in SUBSET DOMAIN PoolSpec
  BY DEF Typed
<1> QED BY <1>1, BestMatch DEF PoolOf

(* What the sizing hands to the launch loop: a batch of pods that wait,    *)
(* candidates that fit it, and a number of nodes for which there is room.  *)
LEMMA SizingSound ==
  ASSUME Typed, NEW q \in DOMAIN PoolSpec, NEW s \in Sizings(q)
  PROVE  /\ s.batch \in Batches
         /\ s.candidates \in Seq(Types)
         /\ s.needed \in Nat
         /\ s.needed > 0 => current[q] + s.needed <= PoolSpec[q].maxNodes
         /\ \A i \in DOMAIN s.candidates : Known(s.candidates[i].name) =>
              \A p \in DOMAIN s.batch : Holds(s.candidates[i].name, s.batch, {p})
         /\ s.needed > 0 => SizedFor(s.batch, s.candidates, s.needed, Room(q))
<1> DEFINE pods == MatchingPods(q)
           specs == {PodSpec(p) : p \in pods}
<1>1. PICK c \in SelectInstanceTypes(PoolSpec[q], specs) \ {<<>>} :
        s = [batch |-> [p \in pods |-> shape[p]], candidates |-> c,
             needed |-> CalculateNodesNeeded(
                          Cardinality(pods),
                          EstimatePodsPerNode(specs, GetInstanceCapacity(Head(c).name)),
                          current[q], PoolSpec[q].maxNodes)]
  BY DEF Sizings
<1>2. /\ pods \in SUBSET Pods
      /\ \A p \in pods : shape[p] \in DOMAIN PodShape
  BY DEF MatchingPods, Waiting
<1>3. IsFiniteSet(pods) /\ Cardinality(pods) \in Nat
  BY <1>2, RoundAssumption, FS_Subset, FS_CardinalityType
<1>4. IsFiniteSet(specs) /\ \A x \in specs : ValidRequests(x)
  <2> DEFINE f == [p \in pods |-> PodSpec(p)]
  <2>1. f \in Surjection(pods, specs)
    BY DEF Surjection
  <2>2. IsFiniteSet(specs)
    BY <1>3, <2>1, FS_Surjection
  <2>3. \A p \in pods : ValidRequests(PodSpec(p))
    BY <1>2, RoundAssumption DEF PodSpec
  <2> QED BY <2>2, <2>3
<1>5. \A p \in pods : PodSpec(p) \in specs /\ PodSpec(p) = PodShape[s.batch[p]] /\ s.batch[p] = shape[p]
  BY <1>1 DEF PodSpec
<1>6. s.batch \in Batches /\ DOMAIN s.batch = pods
  BY <1>1, <1>2 DEF Batches
<1> HIDE DEF pods, specs
<1>7. c \in Seq(Types)
  BY <1>1, SelectedFit
<1>8. PICK arch : \A i \in DOMAIN c : InstanceFits(c[i], MaxPodRequirements(specs), arch)
  BY <1>1, SelectedFit
<1> DEFINE cap == GetInstanceCapacity(Head(c).name)
<1>9. cap.cpu \in Nat /\ cap.memory \in Nat
  BY CapacityAssumption DEF GetInstanceCapacity, DefaultCapacity, Known
<1> HIDE DEF cap
<1>10. EstimatePodsPerNode(specs, cap) \in Nat
  BY <1>4, <1>9, EstimateBounds
<1>11. s.needed = CalculateNodesNeeded(Cardinality(pods), EstimatePodsPerNode(specs, cap),
                                       current[q], PoolSpec[q].maxNodes)
  BY <1>1 DEF cap
<1>12. current[q] \in Int /\ PoolSpec[q].maxNodes \in Nat
  BY RoundAssumption DEF Typed
<1>13. s.needed \in Nat /\ (s.needed > 0 => current[q] + s.needed <= PoolSpec[q].maxNodes)
  BY <1>3, <1>10, <1>11, <1>12, NeededBound
<1>14. s.candidates = c
  BY <1>1
<1>15. ASSUME NEW i \in DOMAIN c, Known(c[i].name), NEW p \in pods
       PROVE  Holds(c[i].name, s.batch, {p})
  <2>1. \A r \in Resources : SumFunction(Requests(PodSpec(p), r)) <= InstanceCapacities[c[i].name][r]
    BY <1>4, <1>5, <1>8, <1>15, FitHolds
  <2>2. \A r \in Resources : Asks(s.batch[p], r) <= InstanceCapacities[c[i].name][r]
    BY <1>5, <2>1 DEF Asks
  <2> QED BY <1>2, <1>5, <2>2, HoldsOne
<1>16. ASSUME s.needed > 0 PROVE SizedFor(s.batch, s.candidates, s.needed, Room(q))
  <2>1. pods # {}
    <3> SUFFICES ASSUME pods = {} PROVE FALSE
      OBVIOUS
    <3>1. specs = {} /\ Cardinality(pods) = 0
      BY FS_EmptySet DEF specs
    <3>2. s.needed = CalculateNodesNeeded(0, 0, current[q], PoolSpec[q].maxNodes)
      BY <1>11, <3>1 DEF EstimatePodsPerNode
    <3>3. CeilDiv(0, 1) = 0
      BY DEF CeilDiv
    <3> QED BY <1>12, <1>16, <3>2, <3>3 DEF CalculateNodesNeeded
  <2>2. specs = {PodShape[s.batch[p]] : p \in DOMAIN s.batch}
    BY <1>5, <1>6 DEF specs, PodSpec
  <2>3. c # <<>> /\ Head(c) = c[1] /\ 1 \in DOMAIN c
    BY <1>1, <1>7
  <2>4. ASSUME Known(Head(c).name)
        PROVE  \A r \in {"cpu", "memory", "gpu"} :
                 MaxPodRequirements(specs)[r] <= InstanceCapacities[Head(c).name][r]
    BY <1>4, <1>8, <2>3, <2>4, FitHolds
  <2>5. specs # {}
    BY <2>1 DEF specs
  <2>6. EstimatePodsPerNode(specs, cap) >= 1
    BY <1>4, <1>9, <2>5, EstimateBounds
  <2>7. s.needed < Room(q) => s.needed = CeilDiv(Cardinality(pods), EstimatePodsPerNode(specs, cap))
    BY <1>3, <1>10, <1>11, <1>12, <1>16, <2>6, NeededExact DEF Room
  <2>8. LeastFirst(c)
    BY <1>1, SelectedSorted
  <2> QED BY <1>6, <1>14, <1>16, <2>1, <2>2, <2>4, <2>7, <2>8 DEF SizedFor, cap
<1> QED BY <1>6, <1>7, <1>13, <1>14, <1>15, <1>16

(* RoundInv holds initially. *)
LEMMA RoundInvInit == RoundInit => RoundInv
<1> SUFFICES ASSUME RoundInit PROVE RoundInv
  OBVIOUS
<1> USE DEF RoundInit, RoundIdle
<1>1. <<>> \in Batches
  <2>1. <<>> \in [{} -> DOMAIN PodShape]
    OBVIOUS
  <2> QED BY <2>1 DEF Batches
<1>2. Typed
  BY <1>1, RoundAssumption DEF Typed, RoundState
<1>3. RoomKept
  BY RoundAssumption DEF RoomKept
<1>4. CandidatesFit /\ LaunchedCandidates /\ Unstarted /\ Sized
  BY DEF CandidatesFit, LaunchedCandidates, Unstarted, Sized
<1> QED BY <1>2, <1>3, <1>4 DEF RoundInv

(* A round that goes on as it was, though its copy of the pool may get old. *)
SameRound ==
  /\ round' \in RoundState
  /\ round'.pc = round.pc /\ round'.pod = round.pod /\ round'.pool = round.pool
  /\ round'.batch = round.batch /\ round'.candidates = round.candidates
  /\ round'.room = round.room /\ round'.needed = round.needed
  /\ round'.left = round.left /\ round'.launched = round.launched

(* An action that leaves the round alone and takes no room keeps RoundInv. *)
LEMMA RoundUntouched ==
  ASSUME RoundInv, SameRound,
         existing' \in SUBSET DOMAIN PoolSpec,
         current' \in [DOMAIN PoolSpec -> Nat],
         \A q \in DOMAIN PoolSpec : current'[q] <= current[q],
         shape' \in [Pods -> DOMAIN PodShape \cup {"unseen", "gone"}],
         queue' \in SUBSET Pods, marked' \in SUBSET Pods
  PROVE  RoundInv'
<1> USE DEF RoundInv, SameRound
<1>1. Typed'
  BY DEF Typed
<1>2. RoomKept'
  <2>1. \A q \in DOMAIN PoolSpec :
          current[q] \in Nat /\ current'[q] \in Nat /\ PoolSpec[q].maxNodes \in Nat
    BY RoundAssumption DEF Typed
  <2>2. round.left \in Nat /\ Len(round.launched) \in Nat
    BY DEF Typed, RoundState
  <2>3. round.pc = "launch" => round.pool \in DOMAIN PoolSpec
    BY DEF Typed
  <2>4. \A q \in DOMAIN PoolSpec : current'[q] <= PoolSpec[q].maxNodes
    BY <2>1 DEF RoomKept
  <2>5. round.pc = "launch" =>
          current'[round.pool] + Len(round.launched) + round.left
            <= PoolSpec[round.pool].maxNodes
    BY <2>1, <2>2, <2>3 DEF RoomKept
  <2> QED BY <2>4, <2>5 DEF RoomKept
<1>3. CandidatesFit' /\ LaunchedCandidates'
  <2>1. CandidatesFit'
    BY DEF CandidatesFit
  <2>2. LaunchedCandidates'
    BY DEF LaunchedCandidates
  <2> QED BY <2>1, <2>2
<1>4. Unstarted' /\ Sized'
  BY DEF Unstarted, Sized
<1> QED BY <1>1, <1>2, <1>3, <1>4

(* So does one that ends the round and does not add nodes. *)
LEMMA RoundEnds ==
  ASSUME RoundInv, round' = RoundIdle, UNCHANGED <<existing, current, shape>>,
         queue' \in SUBSET Pods, marked' \in SUBSET Pods
  PROVE  RoundInv'
<1> USE DEF RoundInv, RoundIdle
<1>1. <<>> \in Batches
  <2>1. <<>> \in [{} -> DOMAIN PodShape]
    OBVIOUS
  <2> QED BY <2>1 DEF Batches
<1>2. Typed'
  BY <1>1 DEF Typed, RoundState
<1>3. RoomKept'
  BY DEF RoomKept
<1>4. CandidatesFit' /\ LaunchedCandidates' /\ Unstarted' /\ Sized'
  BY DEF CandidatesFit, LaunchedCandidates, Unstarted, Sized
<1> QED BY <1>2, <1>3, <1>4

(* The steps of pods, administrators and the other controllers. *)
LEMMA EnvironmentKeeps ==
  ASSUME RoundInv
  PROVE  /\ \A p \in Pods : PodLeaves(p) => RoundInv'
         /\ \A p \in Pods, s \in DOMAIN PodShape : PodArrives(p, s) => RoundInv'
         /\ \A q \in DOMAIN PoolSpec : CreatePool(q) \/ NodeRemoved(q) => RoundInv'
<1> USE DEF RoundInv
<1>1. /\ \A q \in DOMAIN PoolSpec : current[q] <= current[q]
      /\ UNCHANGED round => SameRound
  BY DEF Typed, SameRound
<1>2. ASSUME NEW p \in Pods, PodLeaves(p) PROVE RoundInv'
  BY <1>1, <1>2, RoundUntouched DEF PodLeaves, Typed
<1>3. ASSUME NEW p \in Pods, NEW s \in DOMAIN PodShape, PodArrives(p, s) PROVE RoundInv'
  BY <1>1, <1>3, RoundUntouched DEF PodArrives, Typed
<1>4. ASSUME NEW q \in DOMAIN PoolSpec, CreatePool(q) PROVE RoundInv'
  BY <1>1, <1>4, RoundUntouched DEF CreatePool, Typed
<1>5. ASSUME NEW q \in DOMAIN PoolSpec, NodeRemoved(q) PROVE RoundInv'
  <2>1. /\ current' \in [DOMAIN PoolSpec -> Nat]
        /\ \A x \in DOMAIN PoolSpec : current'[x] <= current[x]
    BY <1>5 DEF NodeRemoved, Typed
  <2>2. SameRound
    BY <1>5 DEF NodeRemoved, Typed, RoundState, SameRound
  <2> QED BY <1>5, <2>1, <2>2, RoundUntouched DEF NodeRemoved, Typed
<1> QED BY <1>2, <1>3, <1>4, <1>5

(* The steps of the round. *)
LEMMA RoundStepKeeps == RoundInv /\ RoundStep => RoundInv'
<1> SUFFICES ASSUME RoundInv, RoundStep PROVE RoundInv'
  OBVIOUS
<1> USE DEF RoundInv
<1>0. /\ \A q \in DOMAIN PoolSpec : current[q] \in Nat /\ PoolSpec[q].maxNodes \in Nat
      /\ round.left \in Nat /\ Len(round.launched) \in Nat /\ round.needed \in Nat
      /\ round.launched \in Seq(TypeNames) /\ round.candidates \in Seq(Types)
  BY RoundAssumption DEF Typed, RoundState
<1>1. ASSUME NEW p \in Pods, RoundSkip(p) PROVE RoundInv'
  BY <1>0, <1>1, RoundUntouched DEF RoundSkip, Typed, SameRound
<1>2. ASSUME NEW p \in Pods, RoundMatch(p) PROVE RoundInv'
  <2>1. PoolOf(p) \in DOMAIN PoolSpec
    BY <1>2, PoolFound DEF RoundMatch
  <2>2. <<>> \in Batches
    <3>1. <<>> \in [{} -> DOMAIN PodShape]
      OBVIOUS
    <3> QED BY <3>1 DEF Batches
  <2>3. round' = [pc |-> "size", pod |-> p, pool |-> PoolOf(p), batch |-> <<>>,
                  candidates |-> <<>>, room |-> 0, needed |-> 0, left |-> 0,
                  launched |-> <<>>, stale |-> FALSE]
    BY <1>2 DEF RoundMatch, RoundIdle
  <2>4. Typed'
    <3>1. round' \in RoundState
      BY <2>1, <2>2, <2>3 DEF RoundState
    <3>2. queue' \in SUBSET Pods /\ UNCHANGED <<existing, current, shape, marked>>
      BY <1>2 DEF RoundMatch, Typed
    <3> QED BY <2>1, <2>3, <3>1, <3>2 DEF Typed
  <2>5. RoomKept'
    <3>1. UNCHANGED current
      BY <1>2 DEF RoundMatch
    <3>2. /\ round'.pc = "size" /\ round'.left = 0
          /\ round'.launched = <<>> /\ round'.needed = 0
      BY <2>3
    <3> QED BY <3>1, <3>2 DEF RoomKept
  <2>6. CandidatesFit' /\ LaunchedCandidates' /\ Unstarted' /\ Sized'
    BY <2>3 DEF CandidatesFit, LaunchedCandidates, Unstarted, Sized
  <2> QED BY <2>4, <2>5, <2>6
<1>3. CASE RoundSize
  <2>1. round.pool \in DOMAIN PoolSpec
    BY <1>3 DEF RoundSize, Typed
  <2>2. PICK s \in Sizings(round.pool) :
          /\ s.needed > 0
          /\ round' = [round EXCEPT !.pc = "launch", !.batch = s.batch,
                                    !.candidates = s.candidates,
                                    !.room = Room(round.pool),
                                    !.needed = s.needed, !.left = s.needed]
    BY <1>3 DEF RoundSize
  <2>3. /\ s.batch \in Batches /\ s.candidates \in Seq(Types) /\ s.needed \in Nat
        /\ current[round.pool] + s.needed <= PoolSpec[round.pool].maxNodes
        /\ \A i \in DOMAIN s.candidates : Known(s.candidates[i].name) =>
             \A p \in DOMAIN s.batch : Holds(s.candidates[i].name, s.batch, {p})
        /\ SizedFor(s.batch, s.candidates, s.needed, Room(round.pool))
    BY <2>1, <2>2, SizingSound
  <2>4. Room(round.pool) \in Int
    BY <1>0, <2>1 DEF Room
  <2>5. /\ round' \in RoundState /\ round'.pc = "launch" /\ round'.batch = s.batch
        /\ round'.candidates = s.candidates /\ round'.needed = s.needed
        /\ round'.left = s.needed /\ round'.room = Room(round.pool)
        /\ round'.pool = round.pool /\ round'.pod = round.pod
        /\ round'.launched = round.launched
    BY <2>2, <2>3, <2>4 DEF Typed, RoundState
  <2>6. round.launched = <<>>
    BY <1>3 DEF RoundSize, Unstarted
  <2>7. UNCHANGED <<existing, current, shape, queue, marked>>
    BY <1>3 DEF RoundSize
  <2>8. Typed'
    BY <1>3, <2>5, <2>7 DEF RoundSize, Typed
  <2>9. RoomKept'
    BY <1>0, <2>1, <2>3, <2>5, <2>6, <2>7 DEF RoomKept
  <2>10. CandidatesFit'
    BY <2>3, <2>5 DEF CandidatesFit
  <2>11. LaunchedCandidates' /\ Unstarted' /\ Sized'
    BY <2>3, <2>5, <2>6 DEF LaunchedCandidates, Unstarted, Sized
  <2> QED BY <2>8, <2>9, <2>10, <2>11
<1>4. CASE RoundTurnedAway
  <2>1. round.pod \in Pods
    BY <1>4 DEF RoundTurnedAway, Typed
  <2> QED BY <1>4, <2>1, RoundEnds DEF RoundTurnedAway, Typed
<1>5. CASE RoundLaunch
  <2>1. /\ round.pc = "launch" /\ round.left > 0
        /\ UNCHANGED <<existing, current, shape, queue, marked>>
    BY <1>5 DEF RoundLaunch
  <2>2. PICK answer :
          round' = [round EXCEPT
                      !.left = @ - 1,
                      !.launched = IF LaunchWithFallback(round.candidates, answer) = "none" THEN @
                                   ELSE Append(@, LaunchWithFallback(round.candidates, answer))]
    BY <1>5 DEF RoundLaunch
  <2> DEFINE type == LaunchWithFallback(round.candidates, answer)
  <2>3. type # "none" =>
          \E j \in DOMAIN round.candidates : type = round.candidates[j].name
    BY <1>0, LaunchedCandidate
  <2>4. type # "none" => type \in TypeNames
    BY <1>0, <2>3 DEF TypeNames
  <2> HIDE DEF type
  <2>5. /\ round' \in RoundState /\ round'.pc = "launch" /\ round'.batch = round.batch
        /\ round'.candidates = round.candidates /\ round'.needed = round.needed
        /\ round'.room = round.room
        /\ round'.left = round.left - 1
        /\ round'.pool = round.pool /\ round'.pod = round.pod
        /\ round'.launched = IF type = "none" THEN round.launched ELSE Append(round.launched, type)
    <3>1. round \in RoundState /\ round.left - 1 \in Nat
      BY <1>0, <2>1 DEF Typed
    <3>2. (IF type = "none" THEN round.launched ELSE Append(round.launched, type)) \in Seq(TypeNames)
      BY <1>0, <2>4
    <3>3. round' = [round EXCEPT !.left = round.left - 1,
                      !.launched = IF type = "none" THEN round.launched
                                   ELSE Append(round.launched, type)]
      BY <2>2, <3>1 DEF type, RoundState
    <3> QED BY <2>1, <3>1, <3>2, <3>3 DEF RoundState
  <2>6. /\ Len(round'.launched) \in Nat
        /\ Len(round'.launched) <= Len(round.launched) + 1
        /\ \A i \in DOMAIN round'.launched :
             \/ i \in DOMAIN round.launched /\ round'.launched[i] = round.launched[i]
             \/ type # "none" /\ round'.launched[i] = type
    BY <1>0, <2>4, <2>5
  <2>7. Typed'
    BY <2>1, <2>5 DEF Typed
  <2>8. RoomKept'
    <3>1. round.pool \in DOMAIN PoolSpec
      BY <2>1 DEF Typed
    <3>2. /\ round'.pc = "launch" /\ round'.left = round.left - 1
          /\ round'.needed = round.needed /\ round'.pool = round.pool
          /\ UNCHANGED current
      BY <2>1, <2>5
    <3>3. current[round.pool] \in Nat /\ PoolSpec[round.pool].maxNodes \in Nat
      BY <1>0, <3>1
    <3>4. /\ current[round.pool] + Len(round'.launched) + round'.left
                <= PoolSpec[round.pool].maxNodes
          /\ Len(round'.launched) + round'.left <= round'.needed
      <4>1. /\ current[round.pool] + Len(round.launched) + round.left
                  <= PoolSpec[round.pool].maxNodes
            /\ Len(round.launched) + round.left <= round.needed
        BY <2>1 DEF RoomKept
      <4>2. Len(round'.launched) \in Nat /\ Len(round'.launched) <= Len(round.launched) + 1
        BY <2>6
      <4>3. /\ round.left \in Nat /\ Len(round.launched) \in Nat /\ round.needed \in Nat
            /\ round'.left = round.left - 1 /\ round'.needed = round.needed
        BY <1>0, <3>2
      <4> DEFINE old == Len(round.launched) + round.left
                 new == Len(round'.launched) + round'.left
      <4>4. old \in Int /\ new \in Int /\ new <= old
        <5> HIDE DEF RoundInv
        <5>1. old \in Int
          BY <4>3
        <5>2. new \in Int
          BY <4>2, <4>3
        <5>3. new <= old
          BY <4>2, <4>3
        <5> QED BY <5>1, <5>2, <5>3
      <4>5. current[round.pool] + Len(round.launched) + round.left = current[round.pool] + old
        BY <3>3, <4>3
      <4>6. current[round.pool] + Len(round'.launched) + round'.left = current[round.pool] + new
        BY <3>3, <4>2, <4>3
      <4> HIDE DEF old, new
      <4>7. current[round.pool] + new <= PoolSpec[round.pool].maxNodes
        BY <3>3, <4>1, <4>4, <4>5
      <4>8. new <= round'.needed
        BY <4>1, <4>3, <4>4 DEF old
      <4> QED BY <4>6, <4>7, <4>8 DEF new
    <3> QED BY <3>2, <3>4 DEF RoomKept
  <2>9. CandidatesFit' /\ Unstarted' /\ Sized'
    BY <2>1, <2>5 DEF CandidatesFit, Unstarted, Sized
  <2>10. LaunchedCandidates'
    BY <2>3, <2>5, <2>6 DEF LaunchedCandidates
  <2> QED BY <2>7, <2>8, <2>9, <2>10
<1>6. CASE RoundPersist
  <2>1. /\ round.pc = "launch" /\ round.left = 0
        /\ current' = [current EXCEPT ![round.pool] = @ + Len(round.launched)]
        /\ round' = [round EXCEPT !.pc = "annotate"]
        /\ UNCHANGED <<existing, shape, queue, marked>>
    BY <1>6 DEF RoundPersist
  <2>2. round.pool \in DOMAIN PoolSpec
    BY <2>1 DEF Typed
  <2>3. /\ round' \in RoundState /\ round'.pc = "annotate" /\ round'.batch = round.batch
        /\ round'.candidates = round.candidates /\ round'.needed = round.needed
        /\ round'.room = round.room
        /\ round'.left = round.left /\ round'.launched = round.launched
        /\ round'.pool = round.pool /\ round'.pod = round.pod
    BY <2>1 DEF Typed, RoundState
  <2>4. /\ current' \in [DOMAIN PoolSpec -> Nat]
        /\ \A q \in DOMAIN PoolSpec : current'[q] <= PoolSpec[q].maxNodes
    BY <1>0, <2>1, <2>2 DEF Typed, RoomKept
  <2>5. Typed'
    BY <2>1, <2>3, <2>4 DEF Typed
  <2>6. RoomKept'
    BY <1>0, <2>3, <2>4 DEF RoomKept
  <2>7. CandidatesFit' /\ LaunchedCandidates' /\ Unstarted' /\ Sized'
    BY <2>1, <2>3 DEF CandidatesFit, LaunchedCandidates, Unstarted, Sized
  <2> QED BY <2>5, <2>6, <2>7
<1>7. CASE RoundPersistFails
  <2>1. round.pod \in Pods
    BY <1>7 DEF RoundPersistFails, Typed
  <2> QED BY <1>7, <2>1, RoundEnds DEF RoundPersistFails, Typed
<1>8. CASE RoundAnnotate
  <2>1. marked' \in SUBSET Pods
    BY <1>8 DEF RoundAnnotate, Typed, Waiting
  <2> QED BY <1>8, <2>1, RoundEnds DEF RoundAnnotate, Typed
<1> QED
  BY <1>1, <1>2, <1>3, <1>4, <1>5, <1>6, <1>7, <1>8 DEF RoundStep

(* RoundInv holds in every reachable state.                                *)
THEOREM RoundInvariant == RoundSpec => []RoundInv
<1>1. RoundInv /\ [RoundNext]_vars => RoundInv'
  <2> SUFFICES ASSUME RoundInv, [RoundNext]_vars PROVE RoundInv'
    OBVIOUS
  <2>1. CASE RoundNext
    BY <2>1, EnvironmentKeeps, RoundStepKeeps DEF RoundNext
  <2>2. CASE UNCHANGED vars
    <3>1. SameRound /\ \A q \in DOMAIN PoolSpec : current[q] <= current[q]
      BY <2>2 DEF vars, RoundInv, Typed, SameRound
    <3> QED BY <2>2, <3>1, RoundUntouched DEF vars, RoundInv, Typed
  <2> QED BY <2>1, <2>2
<1> QED BY <1>1, RoundInvInit, PTL DEF RoundSpec

(* provisioner_reconciler.go: the counts of a pool never pass its maxNodes *)
(* whatever rounds fail, and a round launches no more than it worked out.  *)
THEOREM RoundTypes == RoundSpec => []RoundTypeOK
<1>1. RoundInv => RoundTypeOK
  <2> SUFFICES ASSUME RoundInv PROVE RoundTypeOK
    OBVIOUS
  <2>1. \A q \in DOMAIN PoolSpec : current[q] \in 0..PoolSpec[q].maxNodes
    BY RoundAssumption DEF RoundInv, Typed, RoomKept
  <2> QED BY <2>1 DEF RoundInv, Typed, RoundState, RoomKept, RoundTypeOK
<1> QED BY <1>1, RoundInvariant, PTL

(* matching.go: the most specific pool that matches a pod is its pool.     *)
THEOREM PoolsMostSpecific == RoundSpec => []MostSpecific
<1>1. RoundInv => MostSpecific
  <2> SUFFICES ASSUME RoundInv PROVE MostSpecific
    OBVIOUS
  <2>1. existing \in SUBSET DOMAIN PoolSpec
    BY DEF RoundInv, Typed
  <2> QED BY <2>1, BestMatch DEF MostSpecific, PoolOf, Preferred
<1> QED BY <1>1, RoundInvariant, PTL

(* instance_selector.go with the fallback of the launch: each instance of  *)
(* a known type a round starts can hold each pod the round provides for.   *)
THEOREM LaunchesFit == RoundSpec => []LaunchedFits
<1>1. RoundInv => LaunchedFits
  BY DEF RoundInv, LaunchedFits, LaunchedCandidates, CandidatesFit
<1> QED BY <1>1, RoundInvariant, PTL

(* provisioner_reconciler.go with batch.go: the batch was sized by its     *)
(* largest requests alone, of different pods perhaps, and for the first    *)
(* candidate alone, and yet all of it can be packed on the nodes started.  *)
THEOREM RoundsSuffice == RoundSpec => []RoundSuffices
<1>1. RoundInv => RoundSuffices
  <2> DEFINE D == DOMAIN round.batch
             specs == {PodShape[round.batch[p]] : p \in D}
             most == MaxPodRequirements(specs)
             first == Head(round.candidates).name
             cap == InstanceCapacities[first]
             k == EstimatePodsPerNode(specs, cap)
             m == CeilDiv(Cardinality(D), k)
  <2> SUFFICES ASSUME RoundInv,
                      round.pc = "annotate", round.needed < round.room,
                      Len(round.launched) = round.needed,
                      \A i \in DOMAIN round.launched :
                        /\ Known(round.launched[i])
                        /\ InstanceCapacities[round.launched[i]].memory
                             >= GetInstanceCapacity(first).memory,
                      \A p \in D : Asks(round.batch[p], "gpu") = 0
               PROVE  \E place \in [D -> DOMAIN round.launched] :
                        \A i \in DOMAIN round.launched :
                          Holds(round.launched[i], round.batch, {p \in D : place[p] = i})
    BY DEF RoundSuffices
  <2>1. round \in RoundState /\ round.batch \in Batches
    BY DEF RoundInv, Typed, RoundState
  <2>2. D \in SUBSET Pods /\ IsFiniteSet(D) /\ \A p \in D : round.batch[p] \in DOMAIN PodShape
    <3>1. D \in SUBSET Pods /\ \A p \in D : round.batch[p] \in DOMAIN PodShape
      BY <2>1 DEF Batches
    <3> QED BY <3>1, RoundAssumption, FS_Subset
  <2>3. IsFiniteSet(specs) /\ \A x \in specs : ValidRequests(x)
    <3> DEFINE f == [p \in D |-> PodShape[round.batch[p]]]
    <3>1. f \in Surjection(D, specs)
      BY DEF Surjection
    <3>2. IsFiniteSet(specs)
      BY <2>2, <3>1, FS_Surjection
    <3>3. \A x \in specs : ValidRequests(x)
      BY <2>2, RoundAssumption
    <3> QED BY <3>2, <3>3
  <2>4. SizedFor(round.batch, round.candidates, round.needed, round.room)
    BY DEF RoundInv, Sized
  <2>5. DOMAIN round.launched = 1..round.needed /\ round.needed \in Nat
    BY <2>1 DEF RoundState
  <2>6. D # {} /\ specs # {}
    BY <2>4 DEF SizedFor
  <2>7. \A p \in D : PodShape[round.batch[p]] \in specs
    OBVIOUS
  <2> HIDE DEF D, specs
  <2>8. /\ most.cpu \in Nat /\ most.memory \in Nat
        /\ \A p \in D : /\ Asks(round.batch[p], "cpu") <= most.cpu
                        /\ Asks(round.batch[p], "memory") <= most.memory
                        /\ \A r \in Resources : Asks(round.batch[p], r) \in Nat
    BY <2>3, <2>7, MostBounds, PodBounds DEF Asks
  <2>9. CASE Known(first)
    <3>0. ASSUME NEW i \in DOMAIN round.launched
          PROVE  LET got == InstanceCapacities[round.launched[i]]
                 IN  /\ got.cpu \in Nat /\ got.memory \in Nat /\ got.gpu \in Nat
                     /\ got.cpu >= cap.cpu /\ got.memory >= cap.memory
      <4>1. Known(round.launched[i])
        OBVIOUS
      <4>2. PICK j \in DOMAIN round.candidates : round.launched[i] = round.candidates[j].name
        BY DEF RoundInv, LaunchedCandidates
      <4>3. LeastFirst(round.candidates)
        BY <2>4 DEF SizedFor
      <4>4. cap.cpu <= InstanceCapacities[round.launched[i]].cpu
        BY <4>1, <4>2, <4>3 DEF LeastFirst
      <4>5. InstanceCapacities[round.launched[i]].memory >= cap.memory
        BY <2>9 DEF GetInstanceCapacity
      <4>6. /\ InstanceCapacities[round.launched[i]].cpu \in Nat
            /\ InstanceCapacities[round.launched[i]].memory \in Nat
            /\ InstanceCapacities[round.launched[i]].gpu \in Nat
            /\ cap.cpu \in Nat
        BY <2>9, <4>1, CapacityAssumption DEF Known
      <4> QED BY <4>4, <4>5, <4>6
    <3>1. /\ cap.cpu \in Nat /\ cap.memory \in Nat /\ cap.gpu \in Nat
          /\ cap = GetInstanceCapacity(first)
      BY <2>9, CapacityAssumption DEF Known, GetInstanceCapacity
    <3>2. most.cpu <= cap.cpu /\ most.memory <= cap.memory
      BY <2>4, <2>9 DEF SizedFor, D, specs
    <3>3. /\ k \in Nat /\ k >= 1
          /\ k * most.cpu <= cap.cpu /\ k * most.memory <= cap.memory
      BY <2>3, <2>6, <3>1, <3>2, EstimateBounds
    <3>4. round.needed = m
      BY <2>4, <3>1 DEF SizedFor, D, specs
    <3> HIDE DEF most, cap, k
    <3>5. k > 0
      BY <3>3
    <3>6. PICK place : Packs(place, D, m, k)
      BY <2>2, <3>3, <3>5, Packing
    <3>7. ASSUME NEW i \in DOMAIN round.launched
          PROVE  Holds(round.launched[i], round.batch, {p \in D : place[p] = i})
      <4> DEFINE group == {p \in D : place[p] = i}
                 got == InstanceCapacities[round.launched[i]]
      <4>1. IsFiniteSet(group) /\ Cardinality(group) <= k /\ Cardinality(group) \in Nat
        BY <2>5, <3>4, <3>6, FS_CardinalityType DEF Packs
      <4>2. group \subseteq D
        OBVIOUS
      <4>0. /\ got.cpu \in Nat /\ got.memory \in Nat /\ got.gpu \in Nat
            /\ k * most.cpu <= got.cpu /\ k * most.memory <= got.memory
        <5>1. /\ got.cpu \in Nat /\ got.memory \in Nat /\ got.gpu \in Nat
              /\ got.cpu >= cap.cpu /\ got.memory >= cap.memory
          BY <3>0
        <5>2. k * most.cpu \in Nat /\ k * most.memory \in Nat
          BY <2>8, <3>3
        <5> QED BY <3>1, <3>3, <5>1, <5>2
      <4> HIDE DEF group, got
      <4>3. ASSUME NEW r \in Resources, NEW c \in Nat, k * c <= got[r],
                   \A p \in group : Asks(round.batch[p], r) <= c
            PROVE  SumFunction([p \in group |-> Asks(round.batch[p], r)]) <= got[r]
        <5> DEFINE f == [p \in group |-> Asks(round.batch[p], r)]
        <5>1. f \in [group -> Nat] /\ \A p \in group : f[p] <= c
          BY <2>8, <4>2, <4>3
        <5> HIDE DEF f
        <5>2. SumFunction(f) \in Nat /\ SumFunction(f) <= Cardinality(group) * c
          BY <4>1, <5>1, SumType, SumAtMost
        <5>3. Cardinality(group) * c <= k * c /\ Cardinality(group) * c \in Nat /\ k * c \in Nat
          BY <3>3, <4>1
        <5>4. got[r] \in Nat
          BY <4>0 DEF Resources
        <5>5. SumFunction(f) <= got[r]
          BY <4>3, <5>2, <5>3, <5>4
        <5> QED BY <5>5 DEF f
      <4>4. SumFunction([p \in group |-> Asks(round.batch[p], "cpu")]) <= got.cpu
        BY <2>8, <4>0, <4>2, <4>3 DEF Resources
      <4>5. SumFunction([p \in group |-> Asks(round.batch[p], "memory")]) <= got.memory
        BY <2>8, <4>0, <4>2, <4>3 DEF Resources
      <4>6. SumFunction([p \in group |-> Asks(round.batch[p], "gpu")]) <= got.gpu
        <5>1. k * 0 <= got["gpu"]
          BY <3>3, <4>0
        <5>2. \A p \in group : Asks(round.batch[p], "gpu") <= 0
          BY <4>2
        <5> QED BY <4>3, <5>1, <5>2 DEF Resources
      <4> QED BY <4>4, <4>5, <4>6 DEF Holds, Resources, got, group
    <3>8. place \in [D -> DOMAIN round.launched]
      BY <2>5, <3>4, <3>6 DEF Packs
    <3> QED BY <3>7, <3>8
  <2>10. CASE ~ Known(first)
    <3>1. 1 \in DOMAIN round.launched
      BY <2>4, <2>5 DEF SizedFor
    <3>2. Known(round.launched[1])
      BY <3>1
    <3>3. \E j \in DOMAIN round.candidates : round.launched[1] = round.candidates[j].name
      BY <3>1 DEF RoundInv, LaunchedCandidates
    <3>4. LeastFirst(round.candidates)
      BY <2>4 DEF SizedFor
    <3>5. Known(first)
      BY <3>2, <3>3, <3>4 DEF LeastFirst
    <3> QED BY <2>10, <3>5
  <2> QED BY <2>9, <2>10
<1> QED BY <1>1, RoundInvariant, PTL
=============================================================================
