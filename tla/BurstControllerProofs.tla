----------------------- MODULE BurstControllerProofs -----------------------
(***************************************************************************)
(* Proofs, for every number of node names, pods, nodes allowed and         *)
(* failures, of the type correctness of BurstController and of the         *)
(* accounting in the pool's status.                                        *)
(***************************************************************************)
EXTENDS BurstController, SizingProofs

(* A worker that is not idle works on a pod or a node. *)
WorkersBusy ==
  /\ prov.pc # "idle" => prov.pod \in Pods
  /\ nodeready.pc # "idle" => nodeready.node \in Names
  /\ reaper.pc # "idle" => reaper.node \in Names
  /\ orphan.pc = "clean" => orphan.name \in Names

(* A copy with the latest version is the stored status. *)
CacheCurrent == Fresh("cache") => cache = pool

(* Only launched names have entries, and those of the round in progress    *)
(* have none yet; neither has the node being torn down just been launched. *)
NamesApart ==
  /\ \A n \in Names : instance[n] = "none" => pool.st[n] = "Absent"
  /\ prov.pc = "launch" => \A n \in prov.launched :
                              instance[n] # "none" /\ pool.st[n] = "Absent"
  /\ reaper.pc # "idle" => instance[reaper.node] # "none"
  /\ reaper.pc # "idle" /\ prov.pc = "launch" => reaper.node \notin prov.launched

(* As long as no other client has written since the worker's read, what it *)
(* read still holds: there is room for the round, the entry is Pending,    *)
(* the entry is where the teardown left it.                                *)
ProvRoom ==
  prov.pc = "launch" /\ Fresh("provisioner") =>
    CurrentNodes(pool) + Cardinality(prov.launched) + prov.left <= MaxNodes
StillPending ==
  nodeready.pc # "idle" /\ Fresh("nodeready") => pool.st[nodeready.node] = "Pending"
StillTornDown ==
  reaper.pc # "idle" /\ Fresh("reaper") =>
    pool.st[reaper.node] = TeardownStage[reaper.pc]

TypeInv == TypeOK /\ WorkersBusy
IInv ==
  /\ TypeInv
  /\ CacheCurrent /\ NamesApart
  /\ ProvRoom /\ StillPending /\ StillTornDown /\ TeardownOwned
  /\ PendingExact /\ ActiveCovers /\ StatusWithinMax
----------------------------------------------------------------------------
(* The copies the workers write are statuses. *)
LEMMA StatusTypes ==
  ASSUME NEW s \in PoolStatus, NEW n \in Names
  PROVE  /\ WithoutEntry(s, n) \in PoolStatus
         /\ Promote(s, n) \in PoolStatus
         /\ DropPending(s, n) \in PoolStatus
         /\ DropReaped(s, n) \in PoolStatus
         /\ DropOrphan(s, n) \in PoolStatus
         /\ \A x \in NodeStates : [s EXCEPT !.st[n] = x] \in PoolStatus
         /\ \A I \in SUBSET Names : [s EXCEPT !.idle = I] \in PoolStatus
<1>1. WithoutEntry(s, n) \in PoolStatus
  BY DEF WithoutEntry, PoolStatus, NodeStates, ActiveStates
<1>2. Promote(s, n) \in PoolStatus
  <2> DEFINE st == [s.st EXCEPT ![n] = "Running"]
  <2>1. st \in [Names -> NodeStates] /\ s.active + 1 \in Int /\ s.pending - 1 \in Int
    BY DEF PoolStatus, NodeStates, ActiveStates
  <2>2. Promote(s, n) = [s EXCEPT !.st = st, !.pending = s.pending - 1,
                                  !.active = s.active + 1]
    BY DEF Promote
  <2> HIDE DEF st
  <2> QED BY <2>1, <2>2 DEF PoolStatus
<1>3. DropPending(s, n) \in PoolStatus
  BY <1>1 DEF DropPending, PoolStatus
<1>4. DropReaped(s, n) \in PoolStatus
  BY <1>1 DEF DropReaped, PoolStatus
<1>5. DropOrphan(s, n) \in PoolStatus
  <2> DEFINE w == WithoutEntry(s, n)
             less(count) == IF count - 1 < 0 THEN 0 ELSE count - 1
             pend == IF s.st[n] = "Pending" THEN less(w.pending) ELSE w.pending
             act == IF s.st[n] \in {"Running", "Cordoned", "Draining"}
                      THEN less(w.active) ELSE w.active
  <2>1. w \in PoolStatus /\ pend \in Int /\ act \in Int
    BY <1>1 DEF PoolStatus
  <2>2. DropOrphan(s, n) = [w EXCEPT !.pending = pend, !.active = act]
    BY DEF DropOrphan
  <2> HIDE DEF w, pend, act
  <2> QED BY <2>1, <2>2 DEF PoolStatus
<1>6. \A x \in NodeStates : [s EXCEPT !.st[n] = x] \in PoolStatus
  BY DEF PoolStatus
<1>7. \A I \in SUBSET Names : [s EXCEPT !.idle = I] \in PoolStatus
  BY DEF PoolStatus
<1> QED BY <1>1, <1>2, <1>3, <1>4, <1>5, <1>6, <1>7

(* The status with the launches of a round is a status. *)
LEMMA LaunchedType ==
  ASSUME NEW s \in PoolStatus, NEW L \in SUBSET Names
  PROVE  WithLaunched(s, L) \in PoolStatus
<1>1. Cardinality(L) \in Nat
  BY ClusterAssumption, FS_Subset, FS_CardinalityType
<1> DEFINE st == [n \in Names |-> IF n \in L THEN "Pending" ELSE s.st[n]]
<1>2. st \in [Names -> NodeStates]
  BY DEF PoolStatus, NodeStates, ActiveStates
<1>3. s.pending + Cardinality(L) \in Int
  BY <1>1 DEF PoolStatus
<1>4. WithLaunched(s, L) = [s EXCEPT !.st = st, !.pending = s.pending + Cardinality(L)]
  BY DEF WithLaunched
<1> HIDE DEF st
<1> QED BY <1>2, <1>3, <1>4 DEF PoolStatus

----------------------------------------------------------------------------
(* What a fault, a status write and a read of the pool do to types. *)
LEMMA PoolSteps ==
  ASSUME TypeInv
  PROVE  /\ \A k : Fault(k) => faults' \in 0..MaxFaults
         /\ \A w, new, keep :
              /\ StatusUpdate(w, new, keep)
              /\ new \in PoolStatus /\ keep \in SUBSET Holders
              => /\ pool' \in PoolStatus
                 /\ latest' \subseteq Holders /\ cooled' \subseteq Names
         /\ \A w \in Holders : ReadPool(w) => latest' \subseteq Holders
<1> USE ClusterAssumption
<1>1. \A k : Fault(k) => faults' \in 0..MaxFaults
  BY DEF TypeInv, TypeOK, ClusterTypeOK, Fault
<1>2. \A w, new, keep :
        /\ StatusUpdate(w, new, keep)
        /\ new \in PoolStatus /\ keep \in SUBSET Holders
        => /\ pool' \in PoolStatus
           /\ latest' \subseteq Holders /\ cooled' \subseteq Names
  BY DEF TypeInv, TypeOK, ClusterTypeOK, StatusUpdate, PoolStatus
<1>3. \A w \in Holders : ReadPool(w) => latest' \subseteq Holders
  BY DEF TypeInv, TypeOK, ClusterTypeOK, ReadPool
<1> QED BY <1>1, <1>2, <1>3

(* The world around the controller keeps the types. *)
LEMMA ClusterTypes == TypeInv /\ ClusterStep => TypeInv'
<1> SUFFICES ASSUME TypeInv, ClusterStep PROVE TypeInv'
  OBVIOUS
<1> USE ClusterAssumption DEF poolVars, cloudVars, podVars
<1>1. /\ ProvTypeOK' /\ NodeReadyTypeOK' /\ ReaperTypeOK' /\ OrphanTypeOK'
      /\ WorkersBusy'
  BY DEF ClusterStep, workers, provVars, TypeInv, TypeOK, ProvTypeOK,
         NodeReadyTypeOK, ReaperTypeOK, OrphanTypeOK, WorkersBusy
<1>2. ClusterTypeOK
  BY DEF TypeInv, TypeOK
<1>3. \A n \in Names : age[n] + 1 \in 0..MaxAge \/ ~ (age[n] < MaxAge)
  BY <1>2 DEF ClusterTypeOK, MaxAge
<1>4. ClusterTypeOK'
  <2>1. CASE SyncCache
    BY <1>2, <2>1 DEF SyncCache, ClusterTypeOK, Holders
  <2>2. ASSUME NEW p \in Pods, PodArrives(p) \/ PodSettles(p) \/ PodLeaves(p)
        PROVE  ClusterTypeOK'
    BY <1>2, <2>2 DEF PodArrives, PodSettles, PodLeaves, ClusterTypeOK
  <2>3. ASSUME NEW p \in Pods, NEW n \in Names, Bind(p, n)
        PROVE  ClusterTypeOK'
    BY <1>2, <2>3 DEF Bind, ClusterTypeOK
  <2>4. ASSUME NEW n \in Names, Register(n) \/ BecomeReady(n)
        PROVE  ClusterTypeOK'
    BY <1>2, <2>4 DEF Register, BecomeReady, ClusterTypeOK, NodeFlags
  <2>5. ASSUME NEW n \in Names, Vanish(n)
        PROVE  ClusterTypeOK'
    BY <1>2, <2>5, PoolSteps DEF Vanish, TerminateNode, ClusterTypeOK
  <2>6. ASSUME NEW n \in Names, LoseReady(n)
        PROVE  ClusterTypeOK'
    BY <1>2, <2>6, PoolSteps DEF LoseReady, ClusterTypeOK
  <2>7. ASSUME NEW n \in Names, Tick(n)
        PROVE  ClusterTypeOK'
    BY <1>2, <1>3, <2>7 DEF Tick, ClusterTypeOK
  <2>8. ASSUME NEW n \in Names, Cool(n)
        PROVE  ClusterTypeOK'
    BY <1>2, <2>8 DEF Cool, ClusterTypeOK
  <2> QED
    BY <2>1, <2>2, <2>3, <2>4, <2>5, <2>6, <2>7, <2>8 DEF ClusterStep, ClusterNext
<1> QED BY <1>1, <1>4 DEF TypeInv, TypeOK

(* So do the provisioner, ... *)
LEMMA ProvisionerTypes == TypeInv /\ ProvisionerStep => TypeInv'
<1> SUFFICES ASSUME TypeInv, ProvisionerStep PROVE TypeInv'
  OBVIOUS
<1> USE ClusterAssumption DEF poolVars, cloudVars, podVars, ProvIdle
<1>1. NodeReadyTypeOK' /\ ReaperTypeOK' /\ OrphanTypeOK'
  BY DEF ProvisionerStep, TypeInv, TypeOK, NodeReadyTypeOK, ReaperTypeOK, OrphanTypeOK
<1>2. ClusterTypeOK /\ ProvTypeOK /\ WorkersBusy
  BY DEF TypeInv, TypeOK
<1>3. UNCHANGED <<nodeready, reaper, orphan>>
  BY DEF ProvisionerStep
<1> DEFINE Goal == ClusterTypeOK' /\ ProvTypeOK' /\ WorkersBusy'
<1>4. Goal
  <2>1. ASSUME NEW p \in Pods, ProvSkip(p)
        PROVE  Goal
    BY <1>2, <1>3, <2>1 DEF ProvSkip, provVars, ClusterTypeOK, ProvTypeOK, WorkersBusy
  <2>2. ASSUME NEW p \in Pods, ProvBegin(p)
        PROVE  Goal
    <3>1. IsFiniteSet(Unscheduled)
      BY FS_Subset DEF Unscheduled
    <3>2. Cardinality(Unscheduled) \in Nat
      BY <3>1, FS_CardinalityType
    <3>3. CurrentNodes(cache) \in Int
      BY <1>2 DEF ClusterTypeOK, PoolStatus, CurrentNodes
    <3> DEFINE needed == CalculateNodesNeeded(Cardinality(Unscheduled), PodsPerNode,
                                              CurrentNodes(cache), MaxNodes)
    <3>4. needed \in Nat
      BY <3>2, <3>3, NeededBound
    <3>5. /\ prov' = [pc |-> "launch", pod |-> p, left |-> needed, launched |-> {}]
          /\ handled' = handled
      BY <2>2 DEF ProvBegin
    <3> HIDE DEF needed
    <3>6. ProvTypeOK' /\ WorkersBusy'
      BY <1>2, <1>3, <3>4, <3>5 DEF ProvTypeOK, WorkersBusy
    <3>7. latest' \subseteq Holders
      BY <2>2, PoolSteps DEF ProvBegin, Holders
    <3>8. ClusterTypeOK'
      BY <1>2, <2>2, <3>7 DEF ProvBegin, ClusterTypeOK
    <3> QED BY <3>6, <3>8
  <2>3. ASSUME NEW n \in Names, ProvLaunch(n) \/ ProvLaunchLost(n)
        PROVE  Goal
    <3>1. instance' \in [Names -> {"none", "booting", "joined", "terminated"}]
      BY <1>2, <2>3 DEF ProvLaunch, ProvLaunchLost, ClusterTypeOK
    <3>2. faults' \in 0..MaxFaults
      BY <1>2, <2>3, PoolSteps DEF ProvLaunch, ProvLaunchLost, ClusterTypeOK
    <3>3. ClusterTypeOK'
      BY <1>2, <2>3, <3>1, <3>2 DEF ProvLaunch, ProvLaunchLost, ClusterTypeOK
    <3>4. PICK L \in {prov.launched, prov.launched \cup {n}} :
            prov' = [prov EXCEPT !.left = @ - 1, !.launched = L]
      BY <1>2, <2>3 DEF ProvLaunch, ProvLaunchLost, ProvTypeOK
    <3>5. prov.left - 1 \in Nat /\ L \in SUBSET Names /\ prov.pc = "launch"
      BY <1>2, <2>3, <3>4 DEF ProvLaunch, ProvLaunchLost, Launching, ProvTypeOK
    <3>6. handled' = handled
      BY <2>3 DEF ProvLaunch, ProvLaunchLost
    <3>7. ProvTypeOK' /\ WorkersBusy'
      BY <1>2, <1>3, <3>4, <3>5, <3>6 DEF ProvTypeOK, WorkersBusy
    <3> QED BY <3>3, <3>7
  <2>4. CASE ProvLaunchFails
    BY <1>2, <1>3, <2>4, PoolSteps
       DEF ProvLaunchFails, Launching, ClusterTypeOK, ProvTypeOK, WorkersBusy
  <2>5. CASE ProvPersist
    <3>1. WithLaunched(pool, prov.launched) \in PoolStatus
      BY <1>2, LaunchedType DEF ClusterTypeOK, ProvTypeOK
    <3>2. /\ pool' \in PoolStatus
          /\ latest' \subseteq Holders /\ cooled' \subseteq Names
      BY <2>5, <3>1, PoolSteps DEF ProvPersist
    <3>3. ClusterTypeOK'
      BY <1>2, <2>5, <3>2 DEF ProvPersist, ClusterTypeOK
    <3> QED BY <1>2, <1>3, <2>5, <3>3 DEF ProvPersist, ProvTypeOK, WorkersBusy
  <2>6. CASE ProvPersistFails
    BY <1>2, <1>3, <2>6, PoolSteps
       DEF ProvPersistFails, Requeue, ClusterTypeOK, ProvTypeOK, WorkersBusy
  <2>7. CASE ProvAnnotate
    BY <1>2, <1>3, <2>7
       DEF ProvAnnotate, Unscheduled, ClusterTypeOK, ProvTypeOK, WorkersBusy
  <2>8. CASE ProvAnnotateFails
    BY <1>2, <1>3, <2>8, PoolSteps
       DEF ProvAnnotateFails, ClusterTypeOK, ProvTypeOK, WorkersBusy
  <2> QED
    BY <2>1, <2>2, <2>3, <2>4, <2>5, <2>6, <2>7, <2>8 DEF ProvisionerStep, ProvNext
<1> QED BY <1>1, <1>4 DEF TypeInv, TypeOK

(* ... the node-ready reconciler, ... *)
LEMMA NodeReadyTypes == TypeInv /\ NodeReadyStep => TypeInv'
<1> SUFFICES ASSUME TypeInv, NodeReadyStep PROVE TypeInv'
  OBVIOUS
<1> USE ClusterAssumption DEF poolVars, cloudVars, podVars, NodeReadyIdle
<1>1. ProvTypeOK' /\ ReaperTypeOK' /\ OrphanTypeOK'
  BY DEF NodeReadyStep, provVars, TypeInv, TypeOK, ProvTypeOK, ReaperTypeOK, OrphanTypeOK
<1>2. ClusterTypeOK /\ NodeReadyTypeOK /\ WorkersBusy
  BY DEF TypeInv, TypeOK
<1>3. UNCHANGED <<prov, handled, reaper, orphan>>
  BY DEF NodeReadyStep, provVars
<1> DEFINE Goal == ClusterTypeOK' /\ NodeReadyTypeOK' /\ WorkersBusy'
<1>4. Goal
  <2>1. ASSUME NEW n \in Names, LabelNode(n) \/ BootTimedOut(n)
        PROVE  Goal
    <3>1. latest' \subseteq Holders
      BY <2>1, PoolSteps DEF LabelNode, BootTimedOut, Holders
    <3>2. ClusterTypeOK'
      BY <1>2, <2>1, <3>1, PoolSteps
         DEF LabelNode, BootTimedOut, TerminateNode, ClusterTypeOK, NodeFlags
    <3> QED BY <1>2, <1>3, <2>1, <3>2
            DEF LabelNode, BootTimedOut, NodeReadyTypeOK, WorkersBusy
  <2>2. CASE NodeReadyUpdate
    <3>1. nodeready.node \in Names
      BY <1>2, <2>2 DEF NodeReadyUpdate, WorkersBusy
    <3>2. /\ Promote(pool, nodeready.node) \in PoolStatus
          /\ DropPending(pool, nodeready.node) \in PoolStatus
      BY <1>2, <3>1, StatusTypes DEF ClusterTypeOK
    <3>3. /\ pool' \in PoolStatus
          /\ latest' \subseteq Holders /\ cooled' \subseteq Names
      BY <2>2, <3>2, PoolSteps DEF NodeReadyUpdate
    <3>4. ClusterTypeOK'
      BY <1>2, <2>2, <3>3 DEF NodeReadyUpdate, ClusterTypeOK
    <3> QED BY <1>2, <1>3, <2>2, <3>4 DEF NodeReadyUpdate, NodeReadyTypeOK, WorkersBusy
  <2>3. CASE NodeReadyUpdateFails
    BY <1>2, <1>3, <2>3, PoolSteps
       DEF NodeReadyUpdateFails, ClusterTypeOK, NodeReadyTypeOK, WorkersBusy
  <2> QED BY <2>1, <2>2, <2>3 DEF NodeReadyStep, NodeReadyNext
<1> QED BY <1>1, <1>4 DEF TypeInv, TypeOK

(* ... the reaper, ... *)
LEMMA ReaperTypes == TypeInv /\ ReaperStep => TypeInv'
<1> SUFFICES ASSUME TypeInv, ReaperStep PROVE TypeInv'
  OBVIOUS
<1> USE ClusterAssumption DEF poolVars, cloudVars, podVars, ReaperIdle
<1>1. ProvTypeOK' /\ NodeReadyTypeOK' /\ OrphanTypeOK'
  BY DEF ReaperStep, provVars, TypeInv, TypeOK, ProvTypeOK, NodeReadyTypeOK, OrphanTypeOK
<1>2. ClusterTypeOK /\ ReaperTypeOK /\ WorkersBusy
  BY DEF TypeInv, TypeOK
<1>3. UNCHANGED <<prov, handled, nodeready, orphan>>
  BY DEF ReaperStep, provVars
<1>4. \A n \in Names : \A x \in NodeStates :
        /\ [pool EXCEPT !.st[n] = x] \in PoolStatus
        /\ [cache EXCEPT !.st[n] = x] \in PoolStatus
  BY <1>2, StatusTypes DEF ClusterTypeOK
<1> DEFINE Goal == ClusterTypeOK' /\ ReaperTypeOK' /\ WorkersBusy'
<1>5. Goal
  <2>1. ASSUME NEW n \in Names, ReaperResetTimer(n) \/ ReaperStartTimer(n)
        PROVE  Goal
    <3>1. /\ [cache EXCEPT !.idle = @ \ {n}] \in PoolStatus
          /\ [cache EXCEPT !.idle = @ \cup {n}] \in PoolStatus
      BY <1>2 DEF ClusterTypeOK, PoolStatus
    <3>2. /\ pool' \in PoolStatus
          /\ latest' \subseteq Holders /\ cooled' \subseteq Names
      BY <2>1, <3>1, PoolSteps DEF ReaperResetTimer, ReaperStartTimer
    <3> QED BY <1>2, <1>3, <2>1, <3>2
            DEF ReaperResetTimer, ReaperStartTimer, ClusterTypeOK, ReaperTypeOK, WorkersBusy
  <2>2. ASSUME NEW n \in Names, ReaperBegin(n)
        PROVE  Goal
    <3>1. [cache EXCEPT !.st[n] = "Cordoned"] \in PoolStatus
      BY <1>4 DEF NodeStates, ActiveStates
    <3>2. /\ pool' \in PoolStatus
          /\ latest' \subseteq Holders /\ cooled' \subseteq Names
      BY <2>2, <3>1, PoolSteps DEF ReaperBegin, Holders
    <3> QED BY <1>2, <1>3, <2>2, <3>2
            DEF ReaperBegin, ClusterTypeOK, ReaperTypeOK, WorkersBusy
  <2>3. CASE ReaperCordon
    BY <1>2, <1>3, <2>3, PoolSteps
       DEF ReaperCordon, CordonNode, NodeFlags, ClusterTypeOK, ReaperTypeOK, WorkersBusy
  <2>4. CASE ReaperMarkDraining \/ ReaperMarkTerminating
    <3>1. reaper.node \in Names
      BY <1>2, <2>4
         DEF ReaperMarkDraining, ReaperMarkTerminating, ReaperMark, WorkersBusy
    <3>2. /\ [pool EXCEPT !.st[reaper.node] = "Draining"] \in PoolStatus
          /\ [pool EXCEPT !.st[reaper.node] = "Terminating"] \in PoolStatus
      BY <1>4, <3>1 DEF NodeStates, ActiveStates
    <3>3. /\ pool' \in PoolStatus
          /\ latest' \subseteq Holders /\ cooled' \subseteq Names
      BY <2>4, <3>2, PoolSteps
         DEF ReaperMarkDraining, ReaperMarkTerminating, ReaperMark, Holders
    <3> QED BY <1>2, <1>3, <2>4, <3>3
            DEF ReaperMarkDraining, ReaperMarkTerminating, ReaperMark,
                ClusterTypeOK, ReaperTypeOK, WorkersBusy
  <2>5. CASE ReaperDrain
    <3>1. PICK evicted \in SUBSET Pods : pod' = pod \/ Evict(evicted)
      BY <2>5 DEF ReaperDrain, DrainNode, PodsOn
    <3>2. pod' \in [Pods -> {"unseen", "unschedulable", "gone"} \cup Names]
      BY <1>2, <3>1 DEF Evict, ClusterTypeOK
    <3> QED BY <1>2, <1>3, <2>5, <3>2, PoolSteps
            DEF ReaperDrain, ClusterTypeOK, ReaperTypeOK, WorkersBusy
  <2>6. CASE ReaperTerminate
    BY <1>2, <1>3, <2>6, PoolSteps
       DEF ReaperTerminate, TerminateNode, ClusterTypeOK, ReaperTypeOK, WorkersBusy
  <2>7. CASE ReaperDelete
    BY <1>2, <1>3, <2>7, PoolSteps
       DEF ReaperDelete, DeleteNode, ClusterTypeOK, ReaperTypeOK, WorkersBusy
  <2>8. CASE ReaperRemove
    <3>1. DropReaped(pool, reaper.node) \in PoolStatus
      BY <1>2, <2>8, StatusTypes DEF ReaperRemove, WorkersBusy, ClusterTypeOK
    <3>2. /\ pool' \in PoolStatus
          /\ latest' \subseteq Holders /\ cooled' \subseteq Names
      BY <2>8, <3>1, PoolSteps DEF ReaperRemove
    <3> QED BY <1>2, <1>3, <2>8, <3>2
            DEF ReaperRemove, ClusterTypeOK, ReaperTypeOK, WorkersBusy
  <2>9. CASE ReaperUpdateFails
    BY <1>2, <1>3, <2>9, PoolSteps
       DEF ReaperUpdateFails, ClusterTypeOK, ReaperTypeOK, WorkersBusy
  <2> QED
    BY <2>1, <2>2, <2>3, <2>4, <2>5, <2>6, <2>7, <2>8, <2>9 DEF ReaperStep, ReaperNext
<1> QED BY <1>1, <1>5 DEF TypeInv, TypeOK

(* ... and the orphan detector. *)
LEMMA OrphanTypes == TypeInv /\ OrphanStep => TypeInv'
<1> SUFFICES ASSUME TypeInv, OrphanStep PROVE TypeInv'
  OBVIOUS
<1> USE ClusterAssumption DEF clusterVars, poolVars, cloudVars, podVars, OrphanRest
<1>1. ProvTypeOK' /\ NodeReadyTypeOK' /\ ReaperTypeOK'
  BY DEF OrphanStep, provVars, TypeInv, TypeOK, ProvTypeOK, NodeReadyTypeOK, ReaperTypeOK
<1>2. ClusterTypeOK /\ OrphanTypeOK /\ WorkersBusy
  BY DEF TypeInv, TypeOK
<1>3. UNCHANGED <<prov, handled, nodeready, reaper>>
  BY DEF OrphanStep, provVars
<1> DEFINE Goal == ClusterTypeOK' /\ OrphanTypeOK' /\ WorkersBusy'
<1>4. Goal
  <2>1. CASE OrphanListCloud \/ OrphanListNodes
    <3>1. ClusterTypeOK'
      BY <1>2, <2>1 DEF OrphanListCloud, OrphanListNodes, ClusterTypeOK
    <3>2. PICK pc \in {"list", "sweep"}, C \in SUBSET Names, N \in SUBSET Names :
            orphan' = [orphan EXCEPT !.pc = pc, !.cloud = C, !.nodes = N]
      <4>1. CASE OrphanListCloud
        <5>1. orphan' = [orphan EXCEPT !.pc = "list", !.cloud = ListManagedNodes,
                                       !.nodes = orphan.nodes]
          BY <1>2, <4>1 DEF OrphanListCloud, OrphanTypeOK
        <5>2. ListManagedNodes \in SUBSET Names /\ orphan.nodes \in SUBSET Names
          BY <1>2 DEF ListManagedNodes, OrphanTypeOK
        <5> QED BY <5>1, <5>2
      <4>2. CASE OrphanListNodes
        <5> DEFINE managed == {n \in Names : Managed(n)}
        <5>1. orphan' = [orphan EXCEPT !.pc = "sweep", !.cloud = orphan.cloud \ managed,
                                       !.nodes = managed \ orphan.cloud]
          BY <4>2 DEF OrphanListNodes
        <5>2. /\ orphan.cloud \ managed \in SUBSET Names
              /\ managed \ orphan.cloud \in SUBSET Names
          BY <1>2 DEF OrphanTypeOK
        <5> QED BY <5>1, <5>2
      <4> QED BY <2>1, <4>1, <4>2
    <3> QED BY <1>2, <1>3, <3>1, <3>2 DEF OrphanTypeOK, WorkersBusy
  <2>2. ASSUME NEW n \in Names, OrphanSkip(n)
        PROVE  Goal
    BY <1>2, <1>3, <2>2 DEF OrphanSkip, ClusterTypeOK, OrphanTypeOK, WorkersBusy
  <2>3. ASSUME NEW n \in Names, OrphanTerminate(n)
        PROVE  Goal
    BY <1>2, <1>3, <2>3, PoolSteps
       DEF OrphanTerminate, TerminateNode, ClusterTypeOK, OrphanTypeOK, WorkersBusy
  <2>4. ASSUME NEW n \in Names, OrphanDelete(n)
        PROVE  Goal
    BY <1>2, <1>3, <2>4, PoolSteps
       DEF OrphanDelete, DeleteNode, ClusterTypeOK, OrphanTypeOK, WorkersBusy
  <2>5. CASE OrphanClean
    <3>1. DropOrphan(cache, orphan.name) \in PoolStatus
      BY <1>2, <2>5, StatusTypes DEF OrphanClean, WorkersBusy, ClusterTypeOK
    <3>2. /\ pool' \in PoolStatus
          /\ latest' \subseteq Holders /\ cooled' \subseteq Names
      BY <2>5, <3>1, PoolSteps DEF OrphanClean
    <3> QED BY <1>2, <1>3, <2>5, <3>2
            DEF OrphanClean, ClusterTypeOK, OrphanTypeOK, WorkersBusy
  <2>6. CASE OrphanCleanFails
    BY <1>2, <1>3, <2>6, PoolSteps
       DEF OrphanCleanFails, ClusterTypeOK, OrphanTypeOK, WorkersBusy
  <2> QED BY <2>1, <2>2, <2>3, <2>4, <2>5, <2>6 DEF OrphanStep, OrphanNext
<1> QED BY <1>1, <1>4 DEF TypeInv, TypeOK

(* A restart puts every worker back to rest, within the types. *)
LEMMA RestartTypes == TypeInv /\ Restart => TypeInv'
<1> SUFFICES ASSUME TypeInv, Restart PROVE TypeInv'
  OBVIOUS
<1>1. ClusterTypeOK'
  BY PoolSteps DEF TypeInv, TypeOK, Restart, ClusterTypeOK, Holders, cloudVars
<1>2. ProvTypeOK' /\ NodeReadyTypeOK' /\ ReaperTypeOK' /\ OrphanTypeOK' /\ WorkersBusy'
  BY DEF TypeInv, TypeOK, Restart, ProvTypeOK, NodeReadyTypeOK, ReaperTypeOK,
         OrphanTypeOK, WorkersBusy, ProvIdle, NodeReadyIdle, ReaperIdle, OrphanRest
<1> QED BY <1>1, <1>2 DEF TypeInv, TypeOK

(* The first state is well typed and every worker is at rest. *)
LEMMA TypeInit == Init => TypeInv
<1> SUFFICES ASSUME Init PROVE TypeInv
  OBVIOUS
<1>1. MaxAge \in Nat
  BY ClusterAssumption DEF MaxAge
<1>2. pool \in PoolStatus /\ cache \in PoolStatus
  BY DEF Init, ClusterInit, PoolStatus, NodeStates, ActiveStates
<1>3. ClusterTypeOK
  BY <1>1, <1>2, ClusterAssumption DEF Init, ClusterInit, ClusterTypeOK, Holders
<1>4. ProvTypeOK /\ NodeReadyTypeOK /\ ReaperTypeOK /\ OrphanTypeOK /\ WorkersBusy
  BY DEF Init, ProvInit, NodeReadyInit, ReaperInit, OrphanInit, ProvTypeOK,
         NodeReadyTypeOK, ReaperTypeOK, OrphanTypeOK, WorkersBusy,
         ProvIdle, NodeReadyIdle, ReaperIdle, OrphanRest
<1> QED BY <1>3, <1>4 DEF TypeInv, TypeOK

(* Every step of every worker and of the cluster keeps the types. *)
LEMMA TypeStep == TypeInv /\ [Next]_vars => TypeInv'
<1> SUFFICES ASSUME TypeInv, [Next]_vars PROVE TypeInv'
  OBVIOUS
<1>1. CASE UNCHANGED vars
  BY <1>1 DEF vars, workers, clusterVars, poolVars, cloudVars, podVars, provVars,
         TypeInv, TypeOK, ClusterTypeOK, ProvTypeOK, NodeReadyTypeOK, ReaperTypeOK,
         OrphanTypeOK, WorkersBusy
<1> QED
  BY <1>1, ClusterTypes, ProvisionerTypes, NodeReadyTypes, ReaperTypes, OrphanTypes,
     RestartTypes DEF Next

(* Every variable of the cluster and of the four workers keeps its type in *)
(* every interleaving, for any number of nodes, pods and failures.         *)
THEOREM TypeCorrect == Spec => []TypeOK
<1>1. TypeInv => TypeOK
  BY DEF TypeInv
<1> QED BY <1>1, TypeInit, TypeStep, PTL DEF Spec

----------------------------------------------------------------------------
(* Moving one entry changes the number of entries in X by what it enters   *)
(* and leaves.                                                             *)
LEMMA MoveOne ==
  ASSUME NEW s \in PoolStatus, NEW t \in PoolStatus, NEW n \in Names, NEW X,
         \A m \in Names : m # n => t.st[m] = s.st[m]
  PROVE  LET before == Cardinality(InState(s, X))
             after  == Cardinality(InState(t, X))
         IN  /\ before \in Nat /\ after \in Nat
             /\ (s.st[n] \in X) = (t.st[n] \in X) => after = before
             /\ s.st[n] \in X /\ t.st[n] \notin X => after = before - 1
             /\ s.st[n] \notin X /\ t.st[n] \in X => after = before + 1
<1>1. IsFiniteSet(InState(s, X)) /\ IsFiniteSet(InState(t, X))
  BY ClusterAssumption, FS_Subset DEF InState
<1>2. Cardinality(InState(s, X)) \in Nat /\ Cardinality(InState(t, X)) \in Nat
  BY <1>1, FS_CardinalityType
<1>3. ASSUME (s.st[n] \in X) = (t.st[n] \in X)
      PROVE  InState(t, X) = InState(s, X)
  BY <1>3 DEF InState
<1>4. ASSUME s.st[n] \in X, t.st[n] \notin X
      PROVE  Cardinality(InState(t, X)) = Cardinality(InState(s, X)) - 1
  <2>1. InState(t, X) = InState(s, X) \ {n} /\ n \in InState(s, X)
    BY <1>4 DEF InState
  <2> QED BY <1>1, <2>1, FS_RemoveElement
<1>5. ASSUME s.st[n] \notin X, t.st[n] \in X
      PROVE  Cardinality(InState(t, X)) = Cardinality(InState(s, X)) + 1
  <2>1. InState(t, X) = InState(s, X) \cup {n} /\ n \notin InState(s, X)
    BY <1>5 DEF InState
  <2> QED BY <1>1, <2>1, FS_AddElement
<1> QED BY <1>2, <1>3, <1>4, <1>5

(* The counters of a status agree with its entries. *)
Accounted(s) ==
  /\ s.pending = Cardinality(InState(s, {"Pending"}))
  /\ s.active >= Cardinality(InState(s, ActiveStates))

(* What each write of a worker does to entries and counters. *)
LEMMA PromoteAccount ==
  ASSUME NEW s \in PoolStatus, NEW n \in Names, Accounted(s), s.st[n] = "Pending"
  PROVE  /\ Accounted(Promote(s, n))
         /\ CurrentNodes(Promote(s, n)) = CurrentNodes(s)
<1> DEFINE t == Promote(s, n)
<1>1. t \in PoolStatus
  BY StatusTypes
<1>2. /\ t.pending = s.pending - 1 /\ t.active = s.active + 1
      /\ t.st[n] = "Running" /\ \A m \in Names : m # n => t.st[m] = s.st[m]
  BY DEF Promote, PoolStatus
<1> HIDE DEF t
<1>3. Cardinality(InState(t, {"Pending"})) = Cardinality(InState(s, {"Pending"})) - 1
  BY <1>1, <1>2, MoveOne
<1>4. /\ Cardinality(InState(t, ActiveStates)) = Cardinality(InState(s, ActiveStates)) + 1
      /\ Cardinality(InState(s, ActiveStates)) \in Nat
  BY <1>1, <1>2, MoveOne DEF ActiveStates
<1>5. s.pending \in Int /\ s.active \in Int
  BY DEF PoolStatus
<1>6. Accounted(t)
  BY <1>2, <1>3, <1>4, <1>5 DEF Accounted
<1>7. CurrentNodes(t) = CurrentNodes(s)
  BY <1>2, <1>5 DEF CurrentNodes
<1> QED BY <1>6, <1>7 DEF t

(* Giving up on a Pending entry keeps the counters in step. *)
LEMMA DropPendingAccount ==
  ASSUME NEW s \in PoolStatus, NEW n \in Names, Accounted(s), s.st[n] = "Pending"
  PROVE  /\ Accounted(DropPending(s, n))
         /\ CurrentNodes(DropPending(s, n)) <= CurrentNodes(s)
<1> DEFINE t == DropPending(s, n)
<1>1. t \in PoolStatus
  BY StatusTypes
<1>2. /\ t.pending = s.pending - 1 /\ t.active = s.active
      /\ t.st[n] = "Absent" /\ \A m \in Names : m # n => t.st[m] = s.st[m]
  BY DEF DropPending, WithoutEntry, PoolStatus
<1> HIDE DEF t
<1>3. Cardinality(InState(t, {"Pending"})) = Cardinality(InState(s, {"Pending"})) - 1
  BY <1>1, <1>2, MoveOne
<1>4. Cardinality(InState(t, ActiveStates)) = Cardinality(InState(s, ActiveStates))
  BY <1>1, <1>2, MoveOne DEF ActiveStates
<1>5. s.pending \in Int /\ s.active \in Int
  BY DEF PoolStatus
<1>6. Accounted(t)
  BY <1>2, <1>3, <1>4, <1>5 DEF Accounted
<1>7. CurrentNodes(t) <= CurrentNodes(s)
  BY <1>2, <1>5 DEF CurrentNodes
<1> QED BY <1>6, <1>7 DEF t

(* So does the removal at the end of a teardown. *)
LEMMA DropReapedAccount ==
  ASSUME NEW s \in PoolStatus, NEW n \in Names, Accounted(s), s.st[n] \in ActiveStates
  PROVE  /\ Accounted(DropReaped(s, n))
         /\ CurrentNodes(DropReaped(s, n)) <= CurrentNodes(s)
<1> DEFINE t == DropReaped(s, n)
<1>1. t \in PoolStatus
  BY StatusTypes
<1>2. /\ t.pending = s.pending
      /\ t.active = IF s.active - 1 < 0 THEN 0 ELSE s.active - 1
      /\ t.st[n] = "Absent" /\ \A m \in Names : m # n => t.st[m] = s.st[m]
  BY DEF DropReaped, WithoutEntry, PoolStatus
<1> HIDE DEF t
<1>3. Cardinality(InState(t, {"Pending"})) = Cardinality(InState(s, {"Pending"}))
  BY <1>1, <1>2, MoveOne DEF ActiveStates
<1>4. /\ Cardinality(InState(t, ActiveStates)) = Cardinality(InState(s, ActiveStates)) - 1
      /\ Cardinality(InState(t, ActiveStates)) \in Nat
      /\ Cardinality(InState(s, ActiveStates)) \in Nat
  BY <1>1, <1>2, MoveOne DEF ActiveStates
<1>5. s.pending \in Int /\ s.active \in Int
  BY DEF PoolStatus
<1>6. t.active = s.active - 1
  BY <1>2, <1>4, <1>5 DEF Accounted
<1>7. Accounted(t)
  BY <1>2, <1>3, <1>4, <1>5, <1>6 DEF Accounted
<1>8. CurrentNodes(t) <= CurrentNodes(s)
  BY <1>2, <1>5, <1>6 DEF CurrentNodes
<1> QED BY <1>7, <1>8 DEF t

(* The orphan cleanup keeps pending exact and active from above. *)
LEMMA DropOrphanAccount ==
  ASSUME NEW s \in PoolStatus, NEW n \in Names, Accounted(s), s.st[n] # "Absent"
  PROVE  /\ Accounted(DropOrphan(s, n))
         /\ CurrentNodes(DropOrphan(s, n)) <= CurrentNodes(s)
<1> DEFINE t == DropOrphan(s, n)
           less(count) == IF count - 1 < 0 THEN 0 ELSE count - 1
<1>1. t \in PoolStatus
  BY StatusTypes
<1>2. /\ t.pending = IF s.st[n] = "Pending" THEN less(s.pending) ELSE s.pending
      /\ t.active = IF s.st[n] \in {"Running", "Cordoned", "Draining"}
                      THEN less(s.active) ELSE s.active
      /\ t.st[n] = "Absent" /\ \A m \in Names : m # n => t.st[m] = s.st[m]
  BY DEF DropOrphan, WithoutEntry, PoolStatus
<1> HIDE DEF t
<1>3. s.pending \in Int /\ s.active \in Int /\ s.st[n] \in NodeStates
  BY DEF PoolStatus
<1> DEFINE sp == Cardinality(InState(s, {"Pending"}))
           tp == Cardinality(InState(t, {"Pending"}))
           sa == Cardinality(InState(s, ActiveStates))
           ta == Cardinality(InState(t, ActiveStates))
<1>4. /\ sp \in Nat /\ tp \in Nat
      /\ tp = IF s.st[n] = "Pending" THEN sp - 1 ELSE sp
  BY <1>1, <1>2, MoveOne
<1>5. /\ sa \in Nat /\ ta \in Nat
      /\ ta = IF s.st[n] \in ActiveStates THEN sa - 1 ELSE sa
  BY <1>1, <1>2, MoveOne DEF ActiveStates
<1>6. s.pending = sp /\ s.active >= sa
  BY DEF Accounted
<1> HIDE DEF sp, tp, sa, ta
<1>7. t.pending = tp /\ t.pending <= s.pending
  BY <1>2, <1>3, <1>4, <1>6
<1>8. t.active >= ta /\ t.active <= s.active
  BY <1>2, <1>3, <1>5, <1>6 DEF NodeStates, ActiveStates
<1>9. t.pending \in Int /\ t.active \in Int
  BY <1>1 DEF PoolStatus
<1> QED BY <1>3, <1>7, <1>8, <1>9 DEF t, tp, ta, Accounted, CurrentNodes

(* A step of a teardown leaves the counters right. *)
LEMMA StageAccount ==
  ASSUME NEW s \in PoolStatus, NEW n \in Names, Accounted(s),
         s.st[n] \in ActiveStates, NEW x \in ActiveStates
  PROVE  /\ Accounted([s EXCEPT !.st[n] = x])
         /\ CurrentNodes([s EXCEPT !.st[n] = x]) = CurrentNodes(s)
<1> DEFINE t == [s EXCEPT !.st[n] = x]
<1>1. t \in PoolStatus
  BY StatusTypes DEF NodeStates
<1>2. /\ t.pending = s.pending /\ t.active = s.active
      /\ t.st[n] = x /\ \A m \in Names : m # n => t.st[m] = s.st[m]
  BY DEF PoolStatus
<1> HIDE DEF t
<1>3. Cardinality(InState(t, {"Pending"})) = Cardinality(InState(s, {"Pending"}))
  BY <1>1, <1>2, MoveOne DEF ActiveStates
<1>4. Cardinality(InState(t, ActiveStates)) = Cardinality(InState(s, ActiveStates))
  BY <1>1, <1>2, MoveOne
<1> QED BY <1>2, <1>3, <1>4 DEF t, Accounted, CurrentNodes

(* Idle timers do not touch the counters. *)
LEMMA TimerAccount ==
  ASSUME NEW s \in PoolStatus, Accounted(s), NEW I \in SUBSET Names
  PROVE  /\ Accounted([s EXCEPT !.idle = I])
         /\ CurrentNodes([s EXCEPT !.idle = I]) = CurrentNodes(s)
         /\ [s EXCEPT !.idle = I].st = s.st
<1> DEFINE t == [s EXCEPT !.idle = I]
<1>1. t.pending = s.pending /\ t.active = s.active /\ t.st = s.st
  BY DEF PoolStatus
<1> HIDE DEF t
<1>2. \A X : InState(t, X) = InState(s, X)
  BY <1>1 DEF InState
<1> QED BY <1>1, <1>2 DEF t, Accounted, CurrentNodes

(* Entering a round keeps the counters right and takes room for each node. *)
LEMMA LaunchAccount ==
  ASSUME NEW s \in PoolStatus, Accounted(s), NEW L \in SUBSET Names,
         \A n \in L : s.st[n] = "Absent"
  PROVE  /\ Accounted(WithLaunched(s, L))
         /\ CurrentNodes(WithLaunched(s, L)) = CurrentNodes(s) + Cardinality(L)
         /\ \A n \in Names :
              WithLaunched(s, L).st[n] = IF n \in L THEN "Pending" ELSE s.st[n]
<1> DEFINE t == WithLaunched(s, L)
           P == InState(s, {"Pending"})
<1>1. /\ t.pending = s.pending + Cardinality(L) /\ t.active = s.active
      /\ \A n \in Names : t.st[n] = IF n \in L THEN "Pending" ELSE s.st[n]
  BY DEF WithLaunched, PoolStatus
<1> HIDE DEF t
<1>2. /\ IsFiniteSet(L) /\ IsFiniteSet(P)
      /\ Cardinality(L) \in Nat /\ Cardinality(P) \in Nat
  BY ClusterAssumption, FS_Subset, FS_CardinalityType DEF InState
<1>3. InState(t, {"Pending"}) = P \cup L /\ P \cap L = {}
  BY <1>1 DEF InState
<1>4. Cardinality(P \cup L) = Cardinality(P) + Cardinality(L)
  <2> HIDE DEF P
  <2>1. Cardinality(P \cup L) =
          Cardinality(P) + Cardinality(L) - Cardinality(P \cap L)
    BY <1>2, FS_Union
  <2>2. Cardinality(P \cap L) = 0
    BY <1>3, FS_EmptySet
  <2> QED BY <1>2, <2>1, <2>2
<1>5. InState(t, ActiveStates) = InState(s, ActiveStates)
  BY <1>1 DEF InState, ActiveStates
<1>6. s.pending \in Int /\ s.active \in Int
  BY DEF PoolStatus
<1>7. Accounted(t)
  BY <1>1, <1>2, <1>3, <1>4, <1>5, <1>6 DEF Accounted
<1>8. CurrentNodes(t) = CurrentNodes(s) + Cardinality(L)
  BY <1>1, <1>2, <1>6 DEF CurrentNodes
<1> QED BY <1>1, <1>7, <1>8 DEF t
----------------------------------------------------------------------------
(* The part of the invariant that needs no types of the later state. *)
Safe ==
  /\ CacheCurrent /\ NamesApart
  /\ ProvRoom /\ StillPending /\ StillTornDown /\ TeardownOwned
  /\ Accounted(pool) /\ CurrentNodes(pool) <= MaxNodes

(* The two halves of the invariant. *)
LEMMA InvIsSafe == IInv <=> TypeInv /\ Safe
  BY DEF IInv, Safe, Accounted, PendingExact, ActiveCovers, StatusWithinMax, CurrentNodes

(* Steps that leave the status and every copy of it alone. *)
LEMMA QuietStep ==
  ASSUME IInv, UNCHANGED <<pool, cache, latest, prov, nodeready, reaper>>,
         \A n \in Names : instance'[n] = "none" <=> instance[n] = "none"
  PROVE  Safe'
<1>1. TypeInv /\ Safe
  BY InvIsSafe
<1>2. NamesApart'
  BY <1>1 DEF TypeInv, TypeOK, ProvTypeOK, WorkersBusy, Safe, NamesApart
<1>3. CacheCurrent' /\ ProvRoom' /\ StillPending' /\ StillTornDown' /\ TeardownOwned'
  BY <1>1 DEF Safe, CacheCurrent, Fresh, ProvRoom, CurrentNodes, StillPending,
              StillTornDown, TeardownOwned, TeardownStage
<1>4. Accounted(pool)' /\ (CurrentNodes(pool) <= MaxNodes)'
  BY <1>1 DEF Safe, Accounted, InState, CurrentNodes
<1> QED BY <1>2, <1>3, <1>4 DEF Safe

(* After a write no other client's copy is current, unless nothing changed. *)
LEMMA WriteStep ==
  ASSUME IInv, NEW w, NEW new, NEW keep \in SUBSET {"reaper"},
         StatusUpdate(w, new, keep), cache' = cache,
         prov' = prov \/ prov'.pc # "launch",
         nodeready' = nodeready \/ nodeready'.pc = "idle",
         Accounted(new), CurrentNodes(new) <= MaxNodes
  PROVE  /\ CacheCurrent' /\ ProvRoom' /\ StillPending'
         /\ Accounted(pool)' /\ (CurrentNodes(pool) <= MaxNodes)'
<1>1. Safe
  BY InvIsSafe
<1>2. pool' = new /\ latest' = (IF new = pool THEN latest ELSE {}) \cup keep
  BY DEF StatusUpdate
<1>3. \A v \in Holders \ {"reaper"} : v \in latest' => v \in latest /\ pool' = pool
  BY <1>2
<1>4. CacheCurrent' /\ ProvRoom' /\ StillPending'
  BY <1>1, <1>3 DEF Safe, CacheCurrent, ProvRoom, StillPending, Fresh, Holders, CurrentNodes
<1>5. Accounted(pool)' /\ (CurrentNodes(pool) <= MaxNodes)'
  BY <1>2 DEF Accounted, InState, CurrentNodes
<1> QED BY <1>4, <1>5

(* The world around the controller. *)
LEMMA ClusterSafe == IInv /\ ClusterStep => Safe'
<1> SUFFICES ASSUME IInv, ClusterStep PROVE Safe'
  OBVIOUS
<1> USE DEF poolVars, cloudVars
<1>1. TypeInv /\ Safe
  BY InvIsSafe
<1>2. UNCHANGED <<prov, nodeready, reaper>>
  BY DEF ClusterStep, workers, provVars
<1>3. CASE SyncCache
  <2>1. /\ pool' = pool /\ cache' = pool /\ instance' = instance
        /\ latest' = latest \cup {"cache"}
    BY <1>3 DEF SyncCache
  <2>2. CacheCurrent' /\ ProvRoom' /\ StillPending' /\ StillTornDown' /\ TeardownOwned'
    BY <1>1, <1>2, <2>1
       DEF Safe, CacheCurrent, Fresh, ProvRoom, CurrentNodes, StillPending,
           StillTornDown, TeardownOwned, TeardownStage
  <2>3. NamesApart'
    BY <1>1, <1>2, <2>1 DEF Safe, NamesApart
  <2>4. Accounted(pool)' /\ (CurrentNodes(pool) <= MaxNodes)'
    BY <1>1, <2>1 DEF Safe, Accounted, InState, CurrentNodes
  <2> QED BY <2>2, <2>3, <2>4 DEF Safe
<1>4. CASE ~ SyncCache
  <2>1. UNCHANGED <<pool, cache, latest>>
    BY <1>4 DEF ClusterStep, ClusterNext, PodArrives, PodSettles, PodLeaves, Bind,
                Register, BecomeReady, Vanish, LoseReady, Tick, Cool
  <2>2. \A n \in Names : instance'[n] = "none" <=> instance[n] = "none"
    <3>1. CASE instance' = instance
      BY <3>1
    <3>2. ASSUME NEW m \in Names, Register(m) \/ Vanish(m)
          PROVE  \A n \in Names : instance'[n] = "none" <=> instance[n] = "none"
      BY <1>1, <3>2 DEF Register, Vanish, Up, TerminateNode, TypeInv, TypeOK, ClusterTypeOK
    <3> QED BY <1>4, <3>1, <3>2
            DEF ClusterStep, ClusterNext, PodArrives, PodSettles, PodLeaves, Bind,
                BecomeReady, LoseReady, Tick, Cool
  <2> QED BY <1>2, <2>1, <2>2, QuietStep
<1> QED BY <1>3, <1>4

(* The provisioner. *)
LEMMA ProvisionerSafe == IInv /\ ProvisionerStep => Safe'
<1> SUFFICES ASSUME IInv, ProvisionerStep PROVE Safe'
  OBVIOUS
<1> USE DEF poolVars, cloudVars
<1>1. TypeInv /\ Safe
  BY InvIsSafe
<1>2. UNCHANGED <<nodeready, reaper>>
  BY DEF ProvisionerStep
<1>3. /\ pool \in PoolStatus /\ ProvTypeOK
      /\ instance \in [Names -> {"none", "booting", "joined", "terminated"}]
      /\ prov.launched \in SUBSET Names /\ prov.left \in Nat
  BY <1>1 DEF TypeInv, TypeOK, ClusterTypeOK, ProvTypeOK
<1>4. /\ IsFiniteSet(prov.launched) /\ Cardinality(prov.launched) \in Nat
      /\ CurrentNodes(pool) \in Int
  BY <1>3, ClusterAssumption, FS_Subset, FS_CardinalityType DEF CurrentNodes, PoolStatus
(* All but the persisting step leave the status alone. *)
<1>5. ASSUME UNCHANGED <<pool, cache>>, NamesApart', ProvRoom',
             latest' \ {"provisioner"} = latest \ {"provisioner"}
      PROVE  Safe'
  <2>1. CacheCurrent' /\ StillPending' /\ StillTornDown' /\ TeardownOwned'
    BY <1>1, <1>2, <1>5
       DEF Safe, CacheCurrent, Fresh, StillPending, StillTornDown, TeardownOwned,
           TeardownStage
  <2>2. Accounted(pool)' /\ (CurrentNodes(pool) <= MaxNodes)'
    BY <1>1, <1>5 DEF Safe, Accounted, InState, CurrentNodes
  <2> QED BY <1>5, <2>1, <2>2 DEF Safe
<1>6. ASSUME NEW p \in Pods, ProvSkip(p)
      PROVE  Safe'
  BY <1>2, <1>6, QuietStep DEF ProvSkip, provVars
<1>7. ASSUME NEW p \in Pods, ProvBegin(p)
      PROVE  Safe'
  <2> DEFINE needed == CalculateNodesNeeded(Cardinality(Unscheduled), PodsPerNode,
                                            CurrentNodes(cache), MaxNodes)
  <2>1. Cardinality(Unscheduled) \in Nat /\ CurrentNodes(cache) \in Int
    BY <1>1, ClusterAssumption, FS_Subset, FS_CardinalityType
       DEF Unscheduled, TypeInv, TypeOK, ClusterTypeOK, PoolStatus, CurrentNodes
  <2>2. /\ prov' = [pc |-> "launch", pod |-> p, left |-> needed, launched |-> {}]
        /\ needed > 0
        /\ UNCHANGED <<pool, cache, instance>> /\ ReadPool("provisioner")
    BY <1>7 DEF ProvBegin
  <2>3. needed \in Nat /\ CurrentNodes(cache) + needed <= MaxNodes
    BY <2>1, <2>2, NeededBound, ClusterAssumption
  <2> HIDE DEF needed
  <2>4. "provisioner" \in latest' => cache = pool
    BY <1>1, <2>2 DEF ReadPool, Fresh, Safe, CacheCurrent
  <2>5. ProvRoom'
    BY <1>4, <2>2, <2>3, <2>4, FS_EmptySet DEF ProvRoom, CurrentNodes, Fresh
  <2>6. NamesApart'
    BY <1>1, <1>2, <2>2 DEF Safe, NamesApart
  <2>7. latest' \ {"provisioner"} = latest \ {"provisioner"}
    BY <2>2 DEF ReadPool
  <2> QED BY <1>5, <2>2, <2>5, <2>6, <2>7
<1>8. ASSUME NEW n \in Names, ProvLaunch(n)
      PROVE  Safe'
  <2>1. /\ prov.pc = "launch" /\ prov.left > 0 /\ instance[n] = "none"
        /\ instance' = [instance EXCEPT ![n] = "booting"]
        /\ prov' = [prov EXCEPT !.left = @ - 1, !.launched = @ \cup {n}]
        /\ UNCHANGED <<pool, cache, latest>>
    BY <1>8 DEF ProvLaunch, Launching
  <2>2. /\ prov'.pc = "launch" /\ prov'.left = prov.left - 1
        /\ prov'.launched = prov.launched \cup {n}
    BY <1>3, <2>1 DEF ProvTypeOK
  <2>3. n \notin prov.launched
    BY <1>1, <2>1 DEF Safe, NamesApart
  <2>4. Cardinality(prov'.launched) = Cardinality(prov.launched) + 1
    BY <1>4, <2>2, <2>3, FS_AddElement
  <2>5. ProvRoom'
    BY <1>1, <1>3, <1>4, <2>1, <2>2, <2>4 DEF Safe, ProvRoom, Fresh, CurrentNodes
  <2>6. NamesApart'
    BY <1>1, <1>2, <1>3, <2>1, <2>2 DEF Safe, NamesApart, TypeInv, WorkersBusy
  <2> QED BY <1>5, <2>1, <2>5, <2>6
<1>9. ASSUME NEW n \in Names, ProvLaunchLost(n)
      PROVE  Safe'
  <2>1. /\ prov.pc = "launch" /\ prov.left > 0 /\ instance[n] = "none"
        /\ instance' = [instance EXCEPT ![n] = "booting"]
        /\ prov' = [prov EXCEPT !.left = @ - 1]
        /\ UNCHANGED <<pool, cache, latest>>
    BY <1>9 DEF ProvLaunchLost, Launching
  <2>2. /\ prov'.pc = "launch" /\ prov'.left = prov.left - 1
        /\ prov'.launched = prov.launched
    BY <1>3, <2>1 DEF ProvTypeOK
  <2>3. ProvRoom'
    BY <1>1, <1>3, <1>4, <2>1, <2>2, ClusterAssumption
       DEF Safe, ProvRoom, Fresh, CurrentNodes
  <2>4. NamesApart'
    BY <1>1, <1>2, <1>3, <2>1, <2>2 DEF Safe, NamesApart, TypeInv, WorkersBusy
  <2> QED BY <1>5, <2>1, <2>3, <2>4
<1>10. CASE ProvLaunchFails
  <2>1. /\ prov.pc = "launch" /\ prov.left > 0
        /\ prov' = [prov EXCEPT !.left = @ - 1]
        /\ UNCHANGED <<pool, cache, latest, instance>>
    BY <1>10 DEF ProvLaunchFails, Launching
  <2>2. /\ prov'.pc = "launch" /\ prov'.left = prov.left - 1
        /\ prov'.launched = prov.launched
    BY <1>3, <2>1 DEF ProvTypeOK
  <2>3. ProvRoom'
    BY <1>1, <1>3, <1>4, <2>1, <2>2, ClusterAssumption
       DEF Safe, ProvRoom, Fresh, CurrentNodes
  <2>4. NamesApart'
    BY <1>1, <1>2, <2>1, <2>2 DEF Safe, NamesApart
  <2> QED BY <1>5, <2>1, <2>3, <2>4
<1>11. CASE ProvPersist
  <2> DEFINE L == prov.launched
             new == WithLaunched(pool, L)
  <2>1. /\ prov.pc = "launch" /\ prov.left = 0 /\ Fresh("provisioner")
        /\ StatusUpdate("provisioner", new, {})
        /\ prov' = [prov EXCEPT !.pc = "annotate"]
        /\ cache' = cache /\ instance' = instance
    BY <1>11 DEF ProvPersist, StatusUpdate
  <2>2. /\ \A n \in L : pool.st[n] = "Absent" /\ instance[n] # "none"
        /\ reaper.pc # "idle" => reaper.node \notin L
        /\ CurrentNodes(pool) + Cardinality(L) <= MaxNodes
    BY <1>1, <1>4, <2>1 DEF Safe, NamesApart, ProvRoom
  <2>3. /\ Accounted(new) /\ CurrentNodes(new) = CurrentNodes(pool) + Cardinality(L)
        /\ \A n \in Names : new.st[n] = IF n \in L THEN "Pending" ELSE pool.st[n]
    BY <1>1, <1>3, <2>2, LaunchAccount DEF Safe
  <2> HIDE DEF new
  <2>4. prov'.pc = "annotate" /\ pool' = new
    BY <1>3, <2>1 DEF StatusUpdate, ProvTypeOK
  <2>5. /\ CacheCurrent' /\ ProvRoom' /\ StillPending'
        /\ Accounted(pool)' /\ (CurrentNodes(pool) <= MaxNodes)'
    BY <1>2, <2>1, <2>2, <2>3, <2>4, WriteStep
  <2>6. NamesApart'
    BY <1>1, <1>2, <1>3, <2>1, <2>2, <2>3, <2>4 DEF Safe, NamesApart
  <2>7. TeardownOwned' /\ StillTornDown'
    <3>1. reaper.pc # "idle" => pool'.st[reaper.node] = pool.st[reaper.node]
      BY <1>1, <2>2, <2>3, <2>4 DEF TypeInv, WorkersBusy
    <3>2. "reaper" \in latest' => "reaper" \in latest
      BY <2>1 DEF StatusUpdate
    <3> QED BY <1>1, <1>2, <3>1, <3>2
            DEF Safe, TeardownOwned, StillTornDown, TeardownStage, Fresh
  <2> QED BY <2>5, <2>6, <2>7 DEF Safe
<1>12. CASE ProvPersistFails \/ ProvAnnotate \/ ProvAnnotateFails
  <2>1. prov' = ProvIdle /\ UNCHANGED <<pool, cache, latest, instance>>
    BY <1>12 DEF ProvPersistFails, Requeue, ProvAnnotate, ProvAnnotateFails
  <2>2. prov'.pc = "idle"
    BY <2>1 DEF ProvIdle
  <2>3. ProvRoom' /\ NamesApart'
    BY <1>1, <1>2, <2>1, <2>2 DEF Safe, ProvRoom, NamesApart
  <2> QED BY <1>5, <2>1, <2>3
<1> QED
  BY <1>6, <1>7, <1>8, <1>9, <1>10, <1>11, <1>12 DEF ProvisionerStep, ProvNext

(* The node-ready reconciler. *)
LEMMA NodeReadySafe == IInv /\ NodeReadyStep => Safe'
<1> SUFFICES ASSUME IInv, NodeReadyStep PROVE Safe'
  OBVIOUS
<1> USE DEF poolVars, cloudVars
<1>1. TypeInv /\ Safe
  BY InvIsSafe
<1>2. UNCHANGED <<prov, reaper>>
  BY DEF NodeReadyStep, provVars
<1>3. /\ pool \in PoolStatus
      /\ instance \in [Names -> {"none", "booting", "joined", "terminated"}]
  BY <1>1 DEF TypeInv, TypeOK, ClusterTypeOK
<1>4. ASSUME NEW n \in Names, LabelNode(n) \/ BootTimedOut(n)
      PROVE  Safe'
  <2>1. /\ UNCHANGED <<pool, cache>> /\ ReadPool("nodeready")
        /\ nodeready'.node = n /\ cache.st[n] = "Pending"
        /\ instance' = instance \/ instance' = [instance EXCEPT ![n] = "terminated"]
    BY <1>4 DEF LabelNode, BootTimedOut, IsPending, TerminateNode
  <2>2. /\ latest' \ {"nodeready"} = latest \ {"nodeready"}
        /\ "nodeready" \in latest' => cache = pool
    BY <1>1, <2>1 DEF ReadPool, Fresh, Safe, CacheCurrent
  <2>3. StillPending'
    BY <2>1, <2>2 DEF StillPending, Fresh
  <2>4. CacheCurrent' /\ ProvRoom' /\ StillTornDown' /\ TeardownOwned'
    BY <1>1, <1>2, <2>1, <2>2
       DEF Safe, CacheCurrent, ProvRoom, CurrentNodes, StillTornDown, TeardownOwned,
           TeardownStage, Fresh
  <2>5. Accounted(pool)' /\ (CurrentNodes(pool) <= MaxNodes)'
    BY <1>1, <2>1 DEF Safe, Accounted, InState, CurrentNodes
  <2>6. \A m \in Names : instance'[m] = "none" => instance[m] = "none"
    BY <1>3, <2>1
  <2>7. NamesApart'
    <3>1. \A m \in Names : instance[m] # "none" => instance'[m] # "none"
      BY <2>6
    <3> QED BY <1>1, <1>2, <2>1, <3>1
            DEF Safe, NamesApart, TypeInv, WorkersBusy, TypeOK, ProvTypeOK
  <2> QED BY <2>3, <2>4, <2>5, <2>7 DEF Safe
<1>5. CASE NodeReadyUpdate
  <2> DEFINE m == nodeready.node
  <2>1. /\ nodeready.pc # "idle" /\ Fresh("nodeready")
        /\ cache' = cache /\ instance' = instance /\ nodeready' = NodeReadyIdle
    BY <1>5 DEF NodeReadyUpdate, StatusUpdate
  <2>2. m \in Names /\ pool.st[m] = "Pending"
    BY <1>1, <2>1 DEF TypeInv, WorkersBusy, Safe, StillPending
  <2>3. PICK new \in {Promote(pool, m), DropPending(pool, m)} :
          StatusUpdate("nodeready", new, {})
    BY <1>5 DEF NodeReadyUpdate
  <2>4. /\ Accounted(new) /\ CurrentNodes(new) <= CurrentNodes(pool)
        /\ CurrentNodes(new) \in Int /\ CurrentNodes(pool) \in Int
    <3>1. Accounted(pool)
      BY <1>1 DEF Safe
    <3>2. new \in PoolStatus
      BY <1>3, <2>2, <2>3, StatusTypes
    <3>3. CurrentNodes(new) \in Int /\ CurrentNodes(pool) \in Int
      BY <1>3, <3>2 DEF CurrentNodes, PoolStatus
    <3>4. CASE new = Promote(pool, m)
      BY <1>3, <2>2, <3>1, <3>3, <3>4, PromoteAccount
    <3>5. CASE new = DropPending(pool, m)
      BY <1>3, <2>2, <3>1, <3>3, <3>5, DropPendingAccount
    <3> QED BY <2>3, <3>4, <3>5
  <2>5. \A n \in Names : n # m => new.st[n] = pool.st[n]
    <3>1. \A n \in Names : n # m => Promote(pool, m).st[n] = pool.st[n]
      BY <1>3, <2>2 DEF Promote, PoolStatus
    <3>2. \A n \in Names : n # m => DropPending(pool, m).st[n] = pool.st[n]
      BY <1>3, <2>2 DEF DropPending, WithoutEntry, PoolStatus
    <3> QED BY <2>3, <3>1, <3>2
  <2> HIDE DEF m
  <2>6. CurrentNodes(new) <= MaxNodes
    BY <1>1, <2>4, ClusterAssumption DEF Safe
  <2>7. pool' = new /\ nodeready'.pc = "idle" /\ ("reaper" \in latest' => "reaper" \in latest)
    BY <2>1, <2>3 DEF StatusUpdate, NodeReadyIdle
  <2>8. /\ CacheCurrent' /\ ProvRoom' /\ StillPending'
        /\ Accounted(pool)' /\ (CurrentNodes(pool) <= MaxNodes)'
    BY <1>2, <2>1, <2>3, <2>4, <2>6, <2>7, WriteStep
  <2>9. NamesApart'
    BY <1>1, <1>2, <2>1, <2>2, <2>5, <2>7
       DEF Safe, NamesApart, TypeInv, TypeOK, ProvTypeOK
  <2>10. TeardownOwned' /\ StillTornDown'
    <3>1. reaper.pc # "idle" => reaper.node \in Names
      BY <1>1 DEF TypeInv, WorkersBusy
    <3>2. reaper.pc # "idle" => pool.st[reaper.node] # "Pending"
      BY <1>1 DEF Safe, TeardownOwned, TeardownStage, TypeInv, TypeOK, ReaperTypeOK
    <3>3. reaper.pc # "idle" => pool'.st[reaper.node] = pool.st[reaper.node]
      BY <2>2, <2>5, <2>7, <3>1, <3>2
    <3> QED BY <1>1, <1>2, <2>7, <3>3
            DEF Safe, TeardownOwned, StillTornDown, TeardownStage, Fresh
  <2> QED BY <2>8, <2>9, <2>10 DEF Safe
<1>6. CASE NodeReadyUpdateFails
  <2>1. /\ UNCHANGED <<pool, cache, latest, instance>>
        /\ nodeready'.pc = "idle"
    BY <1>6 DEF NodeReadyUpdateFails, NodeReadyIdle
  <2>2. /\ CacheCurrent' /\ ProvRoom' /\ StillPending' /\ StillTornDown'
        /\ TeardownOwned' /\ NamesApart'
    BY <1>1, <1>2, <2>1
       DEF Safe, CacheCurrent, ProvRoom, CurrentNodes, StillPending, StillTornDown,
           TeardownOwned, TeardownStage, NamesApart, Fresh
  <2>3. Accounted(pool)' /\ (CurrentNodes(pool) <= MaxNodes)'
    BY <1>1, <2>1 DEF Safe, Accounted, InState, CurrentNodes
  <2> QED BY <2>2, <2>3 DEF Safe
<1> QED BY <1>4, <1>5, <1>6 DEF NodeReadyStep, NodeReadyNext

(* The orphan detector. *)
LEMMA OrphanSafe == IInv /\ OrphanStep => Safe'
<1> SUFFICES ASSUME IInv, OrphanStep PROVE Safe'
  OBVIOUS
<1> USE DEF clusterVars, poolVars, cloudVars
<1>1. TypeInv /\ Safe
  BY InvIsSafe
<1>2. UNCHANGED <<prov, nodeready, reaper>>
  BY DEF OrphanStep, provVars
<1>3. CASE OrphanClean
  <2> DEFINE m == orphan.name
             new == DropOrphan(cache, m)
  <2>1. /\ m \in Names /\ cache.st[m] # "Absent" /\ cache = pool
        /\ StatusUpdate("cache", new, {}) /\ cache' = cache /\ instance' = instance
    BY <1>1, <1>3
       DEF OrphanClean, StatusUpdate, Tracked, TypeInv, WorkersBusy, Safe, CacheCurrent
  <2>2. cache \in PoolStatus /\ Accounted(cache) /\ CurrentNodes(cache) <= MaxNodes
    BY <1>1, <2>1 DEF TypeInv, TypeOK, ClusterTypeOK, Safe
  <2>3. Accounted(new) /\ CurrentNodes(new) <= CurrentNodes(cache) /\ new \in PoolStatus
    BY <2>1, <2>2, DropOrphanAccount, StatusTypes
  <2>4. new.st[m] = "Absent" /\ \A n \in Names : n # m => new.st[n] = pool.st[n]
    BY <2>1, <2>2 DEF DropOrphan, WithoutEntry, PoolStatus
  <2> HIDE DEF new, m
  <2>5. CurrentNodes(new) <= MaxNodes
    BY <2>2, <2>3, ClusterAssumption DEF CurrentNodes, PoolStatus
  <2>6. pool' = new /\ ("reaper" \in latest' => "reaper" \in latest /\ pool' = pool)
    BY <2>1 DEF StatusUpdate
  <2>7. /\ CacheCurrent' /\ ProvRoom' /\ StillPending'
        /\ Accounted(pool)' /\ (CurrentNodes(pool) <= MaxNodes)'
    BY <1>2, <2>1, <2>3, <2>5, WriteStep
  <2>8. NamesApart'
    BY <1>1, <1>2, <2>1, <2>4, <2>6 DEF Safe, NamesApart, TypeInv, TypeOK, ProvTypeOK
  <2>9. TeardownOwned' /\ StillTornDown'
    BY <1>1, <1>2, <2>1, <2>4, <2>6
       DEF Safe, TeardownOwned, StillTornDown, TeardownStage, Fresh, TypeInv, WorkersBusy
  <2> QED BY <2>7, <2>8, <2>9 DEF Safe
<1>4. ASSUME NEW m \in Names, OrphanTerminate(m)
      PROVE  Safe'
  <2>1. instance' = instance \/ instance' = [instance EXCEPT ![m] = "terminated"]
    BY <1>4 DEF OrphanTerminate, TerminateNode
  <2>2. \A n \in Names : instance'[n] = "none" => instance[n] = "none"
    BY <1>1, <2>1 DEF TypeInv, TypeOK, ClusterTypeOK
  <2>3. UNCHANGED <<pool, cache, latest>>
    BY <1>4 DEF OrphanTerminate
  <2>4. /\ CacheCurrent' /\ ProvRoom' /\ StillPending' /\ StillTornDown'
        /\ TeardownOwned'
    BY <1>1, <1>2, <2>3
       DEF Safe, CacheCurrent, ProvRoom, CurrentNodes, StillPending, StillTornDown,
           TeardownOwned, TeardownStage, Fresh
  <2>5. NamesApart'
    BY <1>1, <1>2, <2>2, <2>3
       DEF Safe, NamesApart, TypeInv, WorkersBusy, TypeOK, ProvTypeOK
  <2>6. Accounted(pool)' /\ (CurrentNodes(pool) <= MaxNodes)'
    BY <1>1, <2>3 DEF Safe, Accounted, InState, CurrentNodes
  <2> QED BY <2>4, <2>5, <2>6 DEF Safe
<1>5. CASE UNCHANGED <<pool, cache, latest, instance>>
  BY <1>2, <1>5, QuietStep
<1> QED
  BY <1>3, <1>4, <1>5
     DEF OrphanStep, OrphanNext, OrphanListCloud, OrphanListNodes, OrphanCleanFails,
         OrphanSkip, OrphanDelete

(* After a restart only the stored status is left, which is as before. *)
LEMMA RestartSafe == IInv /\ Restart => Safe'
<1> SUFFICES ASSUME IInv, Restart PROVE Safe'
  OBVIOUS
<1>1. TypeInv /\ Safe
  BY InvIsSafe
<1>2. /\ pool' = pool /\ cache' = pool /\ instance' = instance
      /\ prov'.pc = "idle" /\ nodeready'.pc = "idle" /\ reaper'.pc = "idle"
  BY DEF Restart, ProvIdle, NodeReadyIdle, ReaperIdle, cloudVars
<1>3. /\ CacheCurrent' /\ ProvRoom' /\ StillPending' /\ StillTornDown'
      /\ TeardownOwned' /\ NamesApart'
  BY <1>1, <1>2
     DEF Safe, CacheCurrent, ProvRoom, StillPending, StillTornDown, TeardownOwned,
         NamesApart
<1>4. Accounted(pool)' /\ (CurrentNodes(pool) <= MaxNodes)'
  BY <1>1, <1>2 DEF Safe, Accounted, InState, CurrentNodes
<1> QED BY <1>3, <1>4 DEF Safe

(* The reaper. *)
LEMMA ReaperSafe == IInv /\ ReaperStep => Safe'
<1> SUFFICES ASSUME IInv, ReaperStep PROVE Safe'
  OBVIOUS
<1> USE DEF poolVars, cloudVars
<1>1. TypeInv /\ Safe
  BY InvIsSafe
<1>2. UNCHANGED <<prov, nodeready>>
  BY DEF ReaperStep, provVars
<1>3. /\ pool \in PoolStatus /\ cache \in PoolStatus /\ ReaperTypeOK
      /\ instance \in [Names -> {"none", "booting", "joined", "terminated"}]
      /\ Accounted(pool) /\ CurrentNodes(pool) <= MaxNodes
      /\ CurrentNodes(pool) \in Int
  BY <1>1 DEF TypeInv, TypeOK, ClusterTypeOK, Safe, CurrentNodes, PoolStatus
<1>4. reaper.pc # "idle" => reaper.node \in Names
  BY <1>1 DEF TypeInv, WorkersBusy
(* A write that touches at most the entry of m. *)
<1>5. ASSUME NEW w, NEW new \in PoolStatus, NEW keep \in SUBSET {"reaper"},
             NEW m \in Names, StatusUpdate(w, new, keep),
             cache' = cache, instance' = instance,
             Accounted(new), CurrentNodes(new) <= CurrentNodes(pool),
             \A n \in Names : n # m => new.st[n] = pool.st[n],
             pool.st[m] = "Absent" => new.st[m] = "Absent",
             \/ reaper'.pc = "idle"
             \/ /\ reaper'.node = m /\ reaper'.pc \in DOMAIN TeardownStage
                /\ pool.st[m] # "Absent" /\ new.st[m] = TeardownStage[reaper'.pc]
      PROVE  Safe'
  <2>1. pool' = new
    BY <1>5 DEF StatusUpdate
  <2>2. CurrentNodes(new) <= MaxNodes
    BY <1>3, <1>5, ClusterAssumption DEF CurrentNodes, PoolStatus
  <2>3. /\ CacheCurrent' /\ ProvRoom' /\ StillPending'
        /\ Accounted(pool)' /\ (CurrentNodes(pool) <= MaxNodes)'
    BY <1>2, <1>5, <2>2, WriteStep
  <2>4. TeardownOwned' /\ StillTornDown'
    BY <1>1, <1>5, <2>1 DEF TeardownOwned, StillTornDown, TeardownStage
  <2>5. NamesApart'
    BY <1>1, <1>2, <1>5, <2>1 DEF Safe, NamesApart, TypeInv, TypeOK, ProvTypeOK
  <2> QED BY <2>3, <2>4, <2>5 DEF Safe
<1>6. ASSUME NEW m \in Names, ReaperResetTimer(m) \/ ReaperStartTimer(m)
      PROVE  Safe'
  <2>1. PICK I \in {cache.idle \ {m}, cache.idle \cup {m}} :
          StatusUpdate("cache", [cache EXCEPT !.idle = I], {})
    BY <1>6 DEF ReaperResetTimer, ReaperStartTimer
  <2>2. /\ cache = pool /\ cache' = cache /\ instance' = instance
        /\ reaper'.pc = "idle"
    BY <1>1, <1>6, <2>1
       DEF ReaperResetTimer, ReaperStartTimer, Reapable, StatusUpdate, Safe, CacheCurrent
  <2>3. I \in SUBSET Names
    BY <1>3, <2>1 DEF PoolStatus
  <2> DEFINE new == [cache EXCEPT !.idle = I]
  <2>4. /\ new \in PoolStatus /\ Accounted(new)
        /\ CurrentNodes(new) = CurrentNodes(pool) /\ new.st = pool.st
    BY <1>3, <2>2, <2>3, StatusTypes, TimerAccount
  <2>5. StatusUpdate("cache", new, {})
    BY <2>1
  <2> HIDE DEF new
  <2>6. CurrentNodes(new) <= CurrentNodes(pool)
    BY <1>3, <2>4
  <2> QED BY <1>5, <2>2, <2>4, <2>5, <2>6
<1>7. ASSUME NEW m \in Names, ReaperBegin(m)
      PROVE  Safe'
  <2> DEFINE new == [cache EXCEPT !.st[m] = "Cordoned"]
  <2>1. /\ cache = pool /\ cache' = cache /\ instance' = instance
        /\ reaper' = [pc |-> "cordon", node |-> m]
        /\ pool.st[m] = "Running" /\ StatusUpdate("cache", new, {"reaper"})
    BY <1>1, <1>7 DEF ReaperBegin, Reapable, StatusUpdate, Safe, CacheCurrent
  <2>2. new \in PoolStatus
    BY <1>3, StatusTypes DEF NodeStates, ActiveStates
  <2>3. Accounted(new) /\ CurrentNodes(new) = CurrentNodes(pool)
    BY <1>3, <2>1, StageAccount DEF ActiveStates
  <2>4. new.st[m] = "Cordoned" /\ \A n \in Names : n # m => new.st[n] = pool.st[n]
    BY <1>3, <2>1 DEF PoolStatus
  <2>5. TeardownStage["cordon"] = "Cordoned" /\ "cordon" \in DOMAIN TeardownStage
    BY DEF TeardownStage
  <2> HIDE DEF new
  <2>6. CurrentNodes(new) <= CurrentNodes(pool)
    BY <1>3, <2>3
  <2> QED BY <1>5, <2>1, <2>2, <2>3, <2>4, <2>5, <2>6
<1>8. ASSUME NEW pc \in {"markDraining", "markTerminating"}, NEW state, NEW next,
             ReaperMark(pc, state, next),
             state \in ActiveStates, next \in DOMAIN TeardownStage,
             TeardownStage[next] = state
      PROVE  Safe'
  <2> DEFINE m == reaper.node
             new == [pool EXCEPT !.st[m] = state]
  <2>1. /\ reaper.pc = pc /\ cache' = cache /\ instance' = instance
        /\ reaper' = [reaper EXCEPT !.pc = next]
        /\ Fresh("reaper") /\ StatusUpdate("reaper", new, {"reaper"})
    BY <1>8 DEF ReaperMark, StatusUpdate
  <2>2. m \in Names /\ reaper'.pc = next /\ reaper'.node = m
    BY <1>3, <1>4, <1>8, <2>1 DEF ReaperTypeOK
  <2>3. pool.st[m] \in ActiveStates
    BY <1>1, <1>8, <2>1 DEF Safe, StillTornDown, TeardownStage, ActiveStates
  <2>4. new \in PoolStatus
    BY <1>3, <1>8, <2>2, StatusTypes DEF NodeStates
  <2>5. Accounted(new) /\ CurrentNodes(new) = CurrentNodes(pool)
    BY <1>3, <1>8, <2>2, <2>3, StageAccount
  <2>6. new.st[m] = state /\ \A n \in Names : n # m => new.st[n] = pool.st[n]
    BY <1>3, <2>2 DEF PoolStatus
  <2> HIDE DEF new, m
  <2>7. CurrentNodes(new) <= CurrentNodes(pool) /\ pool.st[m] # "Absent"
    BY <1>3, <2>3, <2>5 DEF ActiveStates
  <2> QED BY <1>5, <1>8, <2>1, <2>2, <2>4, <2>5, <2>6, <2>7
<1>9. CASE ReaperMarkDraining \/ ReaperMarkTerminating
  <2>1. /\ TeardownStage["drain"] = "Draining" /\ "drain" \in DOMAIN TeardownStage
        /\ TeardownStage["terminate"] = "Terminating"
        /\ "terminate" \in DOMAIN TeardownStage
    BY DEF TeardownStage
  <2> QED BY <1>8, <1>9, <2>1
          DEF ReaperMarkDraining, ReaperMarkTerminating, ActiveStates
<1>10. CASE ReaperRemove
  <2> DEFINE m == reaper.node
             new == DropReaped(pool, m)
  <2>1. /\ reaper.pc = "remove" /\ cache' = cache /\ instance' = instance
        /\ reaper' = ReaperIdle /\ Fresh("reaper") /\ StatusUpdate("reaper", new, {})
    BY <1>10 DEF ReaperRemove, StatusUpdate
  <2>2. m \in Names /\ pool.st[m] \in ActiveStates
    BY <1>1, <1>4, <2>1 DEF Safe, StillTornDown, TeardownStage, ActiveStates
  <2>3. new \in PoolStatus /\ Accounted(new) /\ CurrentNodes(new) <= CurrentNodes(pool)
    BY <1>3, <2>2, StatusTypes, DropReapedAccount
  <2>4. new.st[m] = "Absent" /\ \A n \in Names : n # m => new.st[n] = pool.st[n]
    BY <1>3, <2>2 DEF DropReaped, WithoutEntry, PoolStatus
  <2>5. reaper'.pc = "idle"
    BY <2>1 DEF ReaperIdle
  <2> HIDE DEF new, m
  <2> QED BY <1>5, <2>1, <2>2, <2>3, <2>4, <2>5
(* The other steps of the teardown stay within a stage or give up. *)
<1>11. ASSUME UNCHANGED <<pool, cache, latest>>,
              \A n \in Names : instance'[n] = "none" => instance[n] = "none",
              \/ reaper'.pc = "idle"
              \/ /\ reaper.pc # "idle" /\ reaper'.node = reaper.node
                 /\ TeardownStage[reaper'.pc] = TeardownStage[reaper.pc]
       PROVE  Safe'
  <2>1. CacheCurrent' /\ ProvRoom' /\ StillPending'
    BY <1>1, <1>2, <1>11
       DEF Safe, CacheCurrent, ProvRoom, CurrentNodes, StillPending, Fresh
  <2>2. TeardownOwned' /\ StillTornDown'
    BY <1>1, <1>11 DEF Safe, TeardownOwned, StillTornDown, TeardownStage, Fresh
  <2>3. NamesApart'
    BY <1>1, <1>2, <1>4, <1>11 DEF Safe, NamesApart, TypeInv, TypeOK, ProvTypeOK
  <2>4. Accounted(pool)' /\ (CurrentNodes(pool) <= MaxNodes)'
    BY <1>1, <1>11 DEF Safe, Accounted, InState, CurrentNodes
  <2> QED BY <2>1, <2>2, <2>3, <2>4 DEF Safe
<1>12. CASE ReaperCordon \/ ReaperDrain \/ ReaperTerminate \/ ReaperDelete
            \/ ReaperUpdateFails
  <2>1. UNCHANGED <<pool, cache, latest>>
    BY <1>12 DEF ReaperCordon, ReaperDrain, ReaperTerminate, ReaperDelete,
                 ReaperUpdateFails
  <2>2. \A n \in Names : instance'[n] = "none" => instance[n] = "none"
    BY <1>3, <1>12 DEF ReaperCordon, ReaperDrain, ReaperTerminate, TerminateNode,
                       ReaperDelete, ReaperUpdateFails
  <2>3. \/ reaper'.pc = "idle"
        \/ /\ reaper.pc # "idle" /\ reaper'.node = reaper.node
           /\ TeardownStage[reaper'.pc] = TeardownStage[reaper.pc]
    BY <1>3, <1>12
       DEF ReaperCordon, ReaperDrain, ReaperTerminate, ReaperDelete, ReaperUpdateFails,
           ReaperIdle, ReaperTypeOK, TeardownStage
  <2> QED BY <1>11, <2>1, <2>2, <2>3
<1> QED
  BY <1>6, <1>7, <1>9, <1>10, <1>12 DEF ReaperStep, ReaperNext

----------------------------------------------------------------------------
LEMMA InvInit == Init => IInv
<1> SUFFICES ASSUME Init PROVE IInv
  OBVIOUS
<1>1. /\ cache = pool /\ pool.active = 0 /\ pool.pending = 0
      /\ \A n \in Names : pool.st[n] = "Absent"
      /\ prov.pc = "idle" /\ nodeready.pc = "idle" /\ reaper.pc = "idle"
  BY DEF Init, ClusterInit, ProvInit, ProvIdle, NodeReadyInit, NodeReadyIdle,
         ReaperInit, ReaperIdle
<1>2. /\ CacheCurrent /\ NamesApart /\ ProvRoom /\ StillPending /\ StillTornDown
      /\ TeardownOwned
  BY <1>1 DEF CacheCurrent, NamesApart, ProvRoom, StillPending, StillTornDown,
              TeardownOwned
<1>3. InState(pool, {"Pending"}) = {} /\ InState(pool, ActiveStates) = {}
  BY <1>1 DEF InState, ActiveStates
<1>4. Accounted(pool) /\ CurrentNodes(pool) <= MaxNodes
  BY <1>1, <1>3, FS_EmptySet, ClusterAssumption DEF Accounted, CurrentNodes
<1> QED BY <1>2, <1>4, TypeInit, InvIsSafe DEF Safe

(* The invariant is inductive. *)
LEMMA InvStep == IInv /\ [Next]_vars => IInv'
<1> SUFFICES ASSUME IInv, [Next]_vars PROVE IInv'
  OBVIOUS
<1>1. TypeInv'
  BY TypeStep, InvIsSafe
<1>2. ASSUME UNCHANGED vars
      PROVE  Safe'
  <2>1. UNCHANGED <<pool, cache, latest, instance, prov, nodeready, reaper>>
    BY <1>2 DEF vars, workers, clusterVars, poolVars, cloudVars, provVars
  <2> QED BY <2>1, QuietStep
<1>3. Safe'
  BY <1>2, ClusterSafe, ProvisionerSafe, NodeReadySafe, ReaperSafe, OrphanSafe,
     RestartSafe DEF Next
<1>4. (TypeInv /\ Safe)' => IInv'
  BY DEF IInv, Safe, Accounted, CurrentNodes, PendingExact, ActiveCovers,
         StatusWithinMax
<1> QED BY <1>1, <1>3, <1>4

(* What the workers' copies and the stored status have to do with each     *)
(* other in every interleaving: the invariant all the results below need.  *)
THEOREM Invariance == Spec => []IInv
  BY InvInit, InvStep, PTL DEF Spec

(* status.pendingNodes is exact in every interleaving, whichever of the    *)
(* workers wrote last.                                                     *)
THEOREM PendingCounted == Spec => []PendingExact
<1>1. IInv => PendingExact
  BY DEF IInv
<1> QED BY <1>1, Invariance, PTL

(* status.activeNodes is never too low, so the provisioner is never shown  *)
(* room that is taken.                                                     *)
THEOREM ActiveCounted == Spec => []ActiveCovers
<1>1. IInv => ActiveCovers
  BY DEF IInv
<1> QED BY <1>1, Invariance, PTL

(* The stored status never claims more than maxNodes nodes, although the   *)
(* provisioner decides on a cached copy and launches before it writes.     *)
THEOREM StatusBounded == Spec => []StatusWithinMax
<1>1. IInv => StatusWithinMax
  BY DEF IInv
<1> QED BY <1>1, Invariance, PTL

(* No worker but the orphan detector touches the entry the reaper is       *)
(* tearing down.                                                           *)
THEOREM TeardownExclusive == Spec => []TeardownOwned
<1>1. IInv => TeardownOwned
  BY DEF IInv
<1> QED BY <1>1, Invariance, PTL
----------------------------------------------------------------------------
(* A waiting pod is queued, handled, or the one in hand; a pod is dropped  *)
(* for its annotation only after it was handled.                           *)
PodsKept ==
  /\ \A p \in Unscheduled :
       p \in queue \cup handled \/ (prov.pc # "idle" /\ p = prov.pod)
  /\ annotated \subseteq handled

(* Steps after which no more pods wait, and none left the queue. *)
LEMMA KeptStep ==
  ASSUME PodsKept, Unscheduled' \subseteq Unscheduled \cup queue',
         queue \subseteq queue', annotated' = annotated,
         prov' = prov /\ handled' = handled
  PROVE  PodsKept'
  BY DEF PodsKept

(* Only PodArrives makes a pod wait, and it enqueues it. *)
LEMMA ClusterKeeps == TypeInv /\ PodsKept /\ ClusterStep => PodsKept'
<1> SUFFICES ASSUME TypeInv, PodsKept, ClusterStep PROVE PodsKept'
  OBVIOUS
<1>1. prov' = prov /\ handled' = handled
  BY DEF ClusterStep, workers, provVars
<1>2. pod \in [Pods -> {"unseen", "unschedulable", "gone"} \cup Names]
  BY DEF TypeInv, TypeOK, ClusterTypeOK
<1>3. ASSUME NEW p \in Pods, PodArrives(p)
      PROVE  PodsKept'
  <2>1. /\ Unscheduled' \subseteq Unscheduled \cup {p}
        /\ queue' = queue \cup {p} /\ annotated' = annotated
    BY <1>2, <1>3 DEF PodArrives, Unscheduled
  <2> QED BY <1>1, <2>1, KeptStep
<1>4. ASSUME NEW p \in Pods, PodLeaves(p)
      PROVE  PodsKept'
  <2>1. /\ Unscheduled' \subseteq Unscheduled
        /\ queue' = queue /\ annotated' = annotated
    BY <1>2, <1>4 DEF PodLeaves, Unscheduled
  <2> QED BY <1>1, <2>1, KeptStep
<1>5. ASSUME NEW p \in Pods, NEW n \in Names, Bind(p, n)
      PROVE  PodsKept'
  <2>1. /\ Unscheduled' \subseteq Unscheduled
        /\ queue' = queue /\ annotated' = annotated
    BY <1>2, <1>5 DEF Bind, Unscheduled
  <2> QED BY <1>1, <2>1, KeptStep
<1>6. CASE UNCHANGED <<pod, queue, annotated>>
  <2>1. Unscheduled' = Unscheduled
    BY <1>6 DEF Unscheduled
  <2> QED BY <1>1, <1>6, <2>1, KeptStep
<1> QED
  BY <1>3, <1>4, <1>5, <1>6
     DEF ClusterStep, ClusterNext, SyncCache, PodSettles, Register, BecomeReady, Vanish,
         LoseReady, Tick, Cool, podVars

(* The provisioner: a pod leaves the queue for the worker's hand, and its  *)
(* hand for the queue or for good.                                         *)
LEMMA ProvisionerKeeps == TypeInv /\ PodsKept /\ ProvisionerStep => PodsKept'
<1> SUFFICES ASSUME TypeInv, PodsKept, ProvisionerStep PROVE PodsKept'
  OBVIOUS
<1> USE DEF provVars
<1>1. prov \in [pc : {"idle", "launch", "annotate"}, pod : Pods \cup {"none"},
                left : Nat, launched : SUBSET Names]
  BY DEF TypeInv, TypeOK, ProvTypeOK
<1>2. ASSUME NEW p \in Pods, ProvSkip(p)
      PROVE  PodsKept'
  BY <1>2 DEF ProvSkip, PodsKept, Unscheduled
<1>3. ASSUME NEW p \in Pods, ProvBegin(p)
      PROVE  PodsKept'
  <2>1. /\ prov.pc = "idle" /\ prov'.pc = "launch" /\ prov'.pod = p
        /\ queue' = queue \ {p} /\ handled' = handled
        /\ pod' = pod /\ annotated' = annotated
    BY <1>3 DEF ProvBegin
  <2> QED BY <2>1 DEF PodsKept, Unscheduled
<1>4. CASE ProvLaunchFails \/ ProvPersist \/ \E n \in Names : ProvLaunch(n) \/ ProvLaunchLost(n)
  <2>1. /\ prov.pc # "idle" /\ prov'.pc # "idle" /\ prov'.pod = prov.pod
        /\ handled' = handled /\ UNCHANGED <<pod, queue, annotated>>
    BY <1>1, <1>4 DEF ProvLaunchFails, ProvPersist, ProvLaunch, ProvLaunchLost, Launching,
                      podVars
  <2> QED BY <2>1 DEF PodsKept, Unscheduled
<1>5. CASE ProvPersistFails
  <2>1. /\ queue' = queue \cup {prov.pod} /\ handled' = handled
        /\ pod' = pod /\ annotated' = annotated
    BY <1>5 DEF ProvPersistFails, Requeue
  <2> QED BY <2>1 DEF PodsKept, Unscheduled
<1>6. CASE ProvAnnotate \/ ProvAnnotateFails
  <2>1. /\ handled' = handled \cup {prov.pod} /\ UNCHANGED <<pod, queue>>
        /\ annotated' \subseteq annotated \cup {prov.pod}
    BY <1>6 DEF ProvAnnotate, ProvAnnotateFails, podVars
  <2> QED BY <2>1 DEF PodsKept, Unscheduled
<1> QED
  BY <1>2, <1>3, <1>4, <1>5, <1>6 DEF ProvisionerStep, ProvNext

(* The other workers only take pods away; a restart lists the pods anew. *)
LEMMA OthersKeep ==
  TypeInv /\ PodsKept /\ (NodeReadyStep \/ ReaperStep \/ OrphanStep \/ Restart) => PodsKept'
<1> SUFFICES ASSUME TypeInv, PodsKept,
                    NodeReadyStep \/ ReaperStep \/ OrphanStep \/ Restart
             PROVE  PodsKept'
  OBVIOUS
<1> USE DEF provVars
<1>1. CASE Restart
  <2>1. /\ queue' = {p \in Pods : pod[p] \notin {"unseen", "gone"}}
        /\ UNCHANGED <<pod, annotated, handled>>
    BY <1>1 DEF Restart
  <2> QED BY <2>1 DEF PodsKept, Unscheduled
<1>2. CASE NodeReadyStep \/ OrphanStep
  <2>1. UNCHANGED <<pod, queue, annotated, prov, handled>>
    BY <1>2 DEF NodeReadyStep, NodeReadyNext, LabelNode, BootTimedOut, NodeReadyUpdate,
                NodeReadyUpdateFails, OrphanStep, OrphanNext, OrphanListCloud,
                OrphanListNodes, OrphanSkip, OrphanTerminate, OrphanDelete, OrphanClean,
                OrphanCleanFails, podVars, clusterVars
  <2>2. Unscheduled' = Unscheduled
    BY <2>1 DEF Unscheduled
  <2> QED BY <2>1, <2>2, KeptStep
<1>3. CASE ReaperStep
  <2>1. UNCHANGED <<queue, annotated, prov, handled>>
    BY <1>3 DEF ReaperStep, ReaperNext, ReaperResetTimer, ReaperStartTimer, ReaperBegin,
                ReaperCordon, ReaperMarkDraining, ReaperMarkTerminating, ReaperMark,
                ReaperDrain, ReaperTerminate, ReaperDelete, ReaperRemove,
                ReaperUpdateFails, podVars
  <2>2. pod' = pod \/ \E evicted \in SUBSET Pods : Evict(evicted)
    BY <1>3 DEF ReaperStep, ReaperNext, ReaperResetTimer, ReaperStartTimer, ReaperBegin,
                ReaperCordon, ReaperMarkDraining, ReaperMarkTerminating, ReaperMark,
                ReaperDrain, DrainNode, PodsOn, ReaperTerminate, ReaperDelete, ReaperRemove,
                ReaperUpdateFails, podVars
  <2>3. Unscheduled' \subseteq Unscheduled
    BY <2>2 DEF Unscheduled, Evict
  <2> QED BY <2>1, <2>3, KeptStep
<1> QED BY <1>1, <1>2, <1>3

(* No pod that waits for room is forgotten, whatever fails: it is queued,  *)
(* in the provisioner's hand, or its reconcile came to its end.            *)
THEOREM PodsRemembered == Spec => []NoPodForgotten
<1>1. Init => PodsKept
  BY DEF Init, ClusterInit, ProvInit, PodsKept, Unscheduled
<1>2. TypeInv /\ PodsKept /\ [Next]_vars => PodsKept'
  <2>1. PodsKept /\ UNCHANGED vars => PodsKept'
    BY DEF vars, workers, clusterVars, podVars, provVars, PodsKept, Unscheduled
  <2> QED BY <2>1, ClusterKeeps, ProvisionerKeeps, OthersKeep DEF Next
<1>3. PodsKept => NoPodForgotten
  BY DEF PodsKept, NoPodForgotten
<1>4. IInv => TypeInv
  BY InvIsSafe
<1> QED BY <1>1, <1>2, <1>3, <1>4, Invariance, PTL DEF Spec
=============================================================================
