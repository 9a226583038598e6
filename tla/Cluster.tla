------------------------------ MODULE Cluster ------------------------------
(***************************************************************************)
(* Everything the reconcilers of cloud-burst-controller share: the status  *)
(* of one BurstNodePool in the API server and its copy in the manager's    *)
(* informer cache, the Node objects, the EC2 instances and the pods; and   *)
(* what the rest of the world does to them (scheduler, kubelets, time).    *)
(*                                                                         *)
(* A burst node is one name "burst-<pool>-<suffix>": the provisioner draws *)
(* a fresh one per launch and gives it to the instance (its Name tag), to  *)
(* the machine (its hostname, hence the Node object) and to the status     *)
(* entry, so a member of Names identifies all three.                       *)
(***************************************************************************)
EXTENDS Integers, FiniteSets, BatchSizing

CONSTANTS
  Names,              \* node names: the launches the EC2 account allows
  Pods,               \* unschedulable pods that match the pool
  MaxNodes,           \* spec.scaling.maxNodes
  PodsPerNode,        \* what estimatePodsPerNode returns for these pods
  BootTimeout,        \* spec.scaling.bootTimeout, in ticks of an instance's age
  OrphanBootTimeout,  \* OrphanReconciler.bootTimeout(), in the same ticks
  BurstEnabled,       \* pods with the label burst.homelab.dev/enabled=true
  PoolLabels,         \* spec.nodeLabels contains burst.homelab.dev/managed=true
  TalosLabels,        \* the machine config gives nodes that label itself
  PodWrites,          \* the manager's role may update and evict pods
  FaultKinds,         \* kinds of failure that may be injected
  MaxFaults           \* bound on injected failures

ASSUME ClusterAssumption ==
  /\ IsFiniteSet(Names) /\ IsFiniteSet(Pods)
  /\ MaxNodes \in Nat
  /\ PodsPerNode \in Nat
  /\ BootTimeout \in Nat /\ OrphanBootTimeout \in Nat
  /\ BurstEnabled \subseteq Pods
  /\ PoolLabels \in BOOLEAN /\ TalosLabels \in BOOLEAN /\ PodWrites \in BOOLEAN
  /\ MaxFaults \in Nat

(* A pod is in one of these phases or bound to a member of Names. *)
ASSUME NamesAssumption ==
  Names \cap {"unseen", "unschedulable", "gone"} = {}

VARIABLES
  pool,       \* status of the BurstNodePool stored in the API server
  cache,      \* the informer cache's copy of it, which every read returns
  latest,     \* who holds a copy with the latest resourceVersion
  cooled,     \* nodes whose stored lastPodFinished is a cooldown ago or more
  instance,   \* EC2 instance of each name
  age,        \* ticks since the instance's launch
  node,       \* flags of each Node object; {} when there is none
  pod,        \* phase or node of each pod
  annotated,  \* pods annotated burst.homelab.dev/provisioned=true
  settled,    \* pods unschedulable for longer than the debounce period
  queue,      \* workqueue of the provisioner
  faults      \* failures injected so far

poolVars    == <<pool, cache, latest, cooled>>
cloudVars   == <<instance, age>>
podVars     == <<pod, annotated, settled, queue>>
clusterVars == <<poolVars, cloudVars, node, podVars, faults>>
----------------------------------------------------------------------------
(* NodeState, with "Absent" for a name that has no entry in status.nodes. *)
ActiveStates == {"Running", "Cordoned", "Draining", "Terminating"}
NodeStates   == ActiveStates \cup {"Pending", "Absent"}

(* BurstNodePoolStatus: the entries, those whose lastPodFinished is set,   *)
(* and the two counters.                                                   *)
PoolStatus == [st      : [Names -> NodeStates],
               idle    : SUBSET Names,
               active  : Int,
               pending : Int]

(* The clients that hold a copy of the pool across several API calls. *)
Holders == {"cache", "provisioner", "nodeready", "reaper"}

(* The conditions, labels and spec of a Node object the controller reads. *)
NodeFlags == {"registered", "ready", "managed", "cordoned"}

(* At this age an instance is past both boot timeouts. *)
MaxAge == IF BootTimeout < OrphanBootTimeout
            THEN OrphanBootTimeout ELSE BootTimeout + 1

InState(status, states) == {n \in Names : status.st[n] \in states}
Tracked(status)         == {n \in Names : status.st[n] # "Absent"}

(* Mutation of CurrentNodes: nodes that still boot are not counted. *)
ActiveNodesOnly(status) == status.active

(* What the provisioner compares with maxNodes. *)
CurrentNodes(status) == status.active + status.pending

Up(n)        == instance[n] \in {"booting", "joined"}
Managed(n)   == "managed" \in node[n]
PodsOn(n)    == {p \in Pods : pod[p] = n}
Unscheduled  == {p \in Pods : pod[p] = "unschedulable"}
----------------------------------------------------------------------------
(***************************************************************************)
(* Status().Update: the API server accepts the write when the copy the     *)
(* client modified has the stored resourceVersion.  A write that changes   *)
(* something gives the object a new version, which only the writer has;    *)
(* one that changes nothing leaves the version alone.  keep is {w} for a   *)
(* client that goes on with the object the update returned.  A timer that   *)
(* is cleared, or goes with its entry, has not run for a cooldown.         *)
(***************************************************************************)
Fresh(w) == w \in latest

StatusUpdate(w, new, keep) ==
  /\ Fresh(w)
  /\ pool' = new
  /\ latest' = (IF new = pool THEN latest ELSE {}) \cup keep
  /\ cooled' = cooled \cap new.idle

(* Get and List answer from the cache: the reader's copy is as old as it.  *)
ReadPool(w) ==
  latest' = IF Fresh("cache") THEN latest \cup {w} ELSE latest \ {w}

(* The informer receives the latest version of the pool. *)
SyncCache ==
  /\ ~ Fresh("cache")
  /\ cache' = pool
  /\ latest' = latest \cup {"cache"}
  /\ UNCHANGED <<pool, cooled, cloudVars, node, podVars, faults>>

(* A failure of kind k, as long as the bound allows one more. *)
Fault(k) ==
  /\ k \in FaultKinds
  /\ faults < MaxFaults
  /\ faults' = faults + 1

(* Removes the entry of n from status.nodes. *)
WithoutEntry(status, n) ==
  [status EXCEPT !.st[n] = "Absent", !.idle = @ \ {n}]

(* TerminateInstances: succeeds on an instance that is already terminated. *)
TerminateNode(n) == instance' = [instance EXCEPT ![n] = "terminated"]

DeleteNode(n) == node' = [node EXCEPT ![n] = {}]
----------------------------------------------------------------------------
(* The pod is created or turns unschedulable: both events are enqueued. *)
PodArrives(p) ==
  /\ pod[p] = "unseen"
  /\ pod' = [pod EXCEPT ![p] = "unschedulable"]
  /\ queue' = queue \cup {p}
  /\ UNCHANGED <<poolVars, cloudVars, node, annotated, settled, faults>>

(* The debounce period of a pod without the enabled label passes. *)
PodSettles(p) ==
  /\ pod[p] = "unschedulable"
  /\ p \notin BurstEnabled \cup settled
  /\ settled' = settled \cup {p}
  /\ UNCHANGED <<poolVars, cloudVars, node, pod, annotated, queue, faults>>

(* kube-scheduler binds the pod to a ready burst node with room for it. *)
Bind(p, n) ==
  /\ pod[p] = "unschedulable"
  /\ "ready" \in node[n] /\ "cordoned" \notin node[n]
  /\ Cardinality(PodsOn(n)) < (IF PodsPerNode = 0 THEN 1 ELSE PodsPerNode)
  /\ pod' = [pod EXCEPT ![p] = n]
  /\ UNCHANGED <<poolVars, cloudVars, node, annotated, settled, queue, faults>>

(* The pod completes, is deleted, or found room on a node of the home cluster. *)
PodLeaves(p) ==
  /\ pod[p] \notin {"unseen", "gone"}
  /\ pod' = [pod EXCEPT ![p] = "gone"]
  /\ UNCHANGED <<poolVars, cloudVars, node, annotated, settled, queue, faults>>

(* The machine boots and its kubelet creates the Node object. *)
Register(n) ==
  /\ instance[n] = "booting"
  /\ instance' = [instance EXCEPT ![n] = "joined"]
  /\ node' = [node EXCEPT ![n] =
                {"registered"} \cup (IF TalosLabels THEN {"managed"} ELSE {})]
  /\ UNCHANGED <<poolVars, age, podVars, faults>>

BecomeReady(n) ==
  /\ instance[n] = "joined" /\ node[n] # {} /\ "ready" \notin node[n]
  /\ node' = [node EXCEPT ![n] = @ \cup {"ready"}]
  /\ UNCHANGED <<poolVars, cloudVars, podVars, faults>>

(* The machine fails, is interrupted, or is terminated by hand. *)
Vanish(n) ==
  /\ Up(n) /\ Fault("vanish")
  /\ TerminateNode(n)
  /\ UNCHANGED <<poolVars, age, node, podVars>>

(* The kubelet stops reporting: its machine is gone, or it flaps. *)
LoseReady(n) ==
  /\ "ready" \in node[n]
  /\ \/ ~ Up(n) /\ UNCHANGED faults
     \/ Up(n) /\ Fault("flap")
  /\ node' = [node EXCEPT ![n] = @ \ {"ready"}]
  /\ UNCHANGED <<poolVars, cloudVars, podVars>>

(* Time passes for an instance; it stops counting past both boot timeouts. *)
Tick(n) ==
  /\ instance[n] # "none" /\ age[n] < MaxAge
  /\ age' = [age EXCEPT ![n] = @ + 1]
  /\ UNCHANGED <<poolVars, instance, node, podVars, faults>>

(* The cooldown period passes since the stored lastPodFinished. *)
Cool(n) ==
  /\ n \in pool.idle /\ n \notin cooled
  /\ cooled' = cooled \cup {n}
  /\ UNCHANGED <<pool, cache, latest, cloudVars, node, podVars, faults>>

ClusterInit ==
  /\ pool = [st |-> [n \in Names |-> "Absent"], idle |-> {},
             active |-> 0, pending |-> 0]
  /\ cache = pool
  /\ latest = {"cache"}
  /\ cooled = {}
  /\ instance = [n \in Names |-> "none"]
  /\ age = [n \in Names |-> 0]
  /\ node = [n \in Names |-> {}]
  /\ pod = [p \in Pods |-> "unseen"]
  /\ annotated = {} /\ settled = {} /\ queue = {}
  /\ faults = 0

ClusterNext ==
  \/ SyncCache
  \/ \E p \in Pods : PodArrives(p) \/ PodSettles(p) \/ PodLeaves(p)
  \/ \E p \in Pods, n \in Names : Bind(p, n)
  \/ \E n \in Names :
       \/ Register(n) \/ BecomeReady(n) \/ Vanish(n) \/ LoseReady(n)
       \/ Tick(n) \/ Cool(n)

ClusterTypeOK ==
  /\ pool \in PoolStatus /\ cache \in PoolStatus
  /\ latest \subseteq Holders
  /\ cooled \subseteq Names
  /\ instance \in [Names -> {"none", "booting", "joined", "terminated"}]
  /\ age \in [Names -> 0..MaxAge]
  /\ node \in [Names -> SUBSET NodeFlags]
  /\ pod \in [Pods -> {"unseen", "unschedulable", "gone"} \cup Names]
  /\ annotated \subseteq Pods /\ settled \subseteq Pods /\ queue \subseteq Pods
  /\ faults \in 0..MaxFaults
=============================================================================
