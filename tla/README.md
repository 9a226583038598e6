# cloud-burst-controller in TLA+

A TLA+ model of the burst controller in this repository: its reconcilers, the
status they share, and the cluster and cloud around them. TLC checks it on small
instances; TLAPS proves every safety property of it, and that it implements an abstract
ledger, for every size.

## The system

A `BurstNodePool` describes EC2 machines that join a home cluster when pods do not
fit. One manager process (`cmd/main.go`, one replica by leader election) runs four
workers side by side. They never call each other. They meet in four places: the
pool's status, the Node objects, the EC2 instances and the pods.

| Part (source) | State it keeps | Operations | What makes it correct |
|---|---|---|---|
| Provisioner (`provisioner_reconciler.go`) | a workqueue of pods; appends Pending entries to `status.nodes` | debounce, size the batch, launch one by one, write the status, annotate the pod | no pod is lost; the limit `maxNodes` holds in the status; every launch ends up tracked or reclaimed |
| Launch fallback (same file, `cloud/aws/ec2.go`) | none | tries the candidate types in order | a failure of one launch does not stop the others |
| NodeReady (same file) | promotes and drops Pending entries, labels Nodes | label and promote; terminate after the boot timeout | each booted node is decided; the counters move with the entry |
| Reaper (`reaper_reconciler.go`), Drainer (`drain.go`) | idle timer and teardown states of entries | reset and start the timer; mark, cordon, mark, drain, mark, terminate, delete, remove | owns the entry during a teardown; no machine goes with pods on it; idle nodes go |
| Orphan detector and runner (`orphan_reconciler.go`) | none of its own; removes entries | lists instances, then Nodes; terminates, deletes, cleans the status | a leaked instance is reclaimed; the counters stay right |
| Batch sizing (`batch.go`) | none | pods, capacity and room to a number of nodes | never beyond the room; enough for the pods |
| Instance selector (`instance_selector.go`), matching (`matching.go`) | none | filter and sort types; pod to pool | a chosen type fits; the most specific pool wins |
| EC2 provider (`cloud/aws/ec2.go`) | the instances, in EC2 | launch, terminate, list | |
| API types (`burstnodepool_types.go`) | the status: entries, `activeNodes`, `pendingNodes` | | counters and entries agree |
| Talos config, metrics, generated code, flags | none the workers read | | |

What is hard here:

* **Reads are old, writes are checked.** Every `Get` and `List` is answered by the
  informer cache. `Status().Update` is refused if the copy is not the latest version.
  Whatever a worker did outside before the write (launched, labelled, terminated)
  stays done.
* **One object, four writers**, each holding its copy for a different time. The reaper
  keeps one copy through four writes and a drain of minutes.
* **Errors end a reconcile half way**, and only some of the states left behind are
  taken up by the retry.
* **Two boot timeouts** (the pool's own and the orphan detector's fixed one) and two
  ways of recognising a burst node (its label, its name).
* **Restarts** lose what is in memory, between any two calls.
* **A round decides for a batch.** One reconcile is about one pod, but it sizes and
  picks types for every pod that matches, from a list without an order, by the largest
  request of each kind and in two different units of memory.

`PROJECT.json` lists these as hazards, each with its line and the properties that
would show it going wrong.

## Modules

| Module | Models |
|---|---|
| `BatchSizing` | `CalculateNodesNeeded` from the pods-per-node estimate on |
| `Capacity` | what pods request, the largest requests, the pods-per-node estimate |
| `Matching` | the match rules, the specificity score, `MatchPodToPool` |
| `InstanceSelector` | `SelectInstanceTypes` and `launchWithFallback` |
| `ProvisioningRound` | what one reconcile of the provisioner decides: several pools, pods of different shapes |
| `Cluster` | the shared state; API server, cache, scheduler, kubelet, EC2 and time |
| `Provisioner`, `NodeReady`, `Reaper`, `OrphanDetector` | one worker each, with the state it holds between two calls |
| `BurstController` | the process: all four workers on one cluster, restarts, fairness, the properties |
| `IdleHistory` | `BurstController` with a history of the idle timers |
| `PoolLedger` | the abstract specification: what the stored status promises, without caches, versions or workers |
| `MCBurst`, `MCRound` | `BurstController` and `ProvisioningRound` for TLC |
| `BurstControllerProofs` | proofs: types, the inductive invariant, the counters, the limit, teardowns, pods |
| `LedgerProofs` | proof: `BurstController` implements `PoolLedger` |
| `TeardownProofs`, `LeakProofs` | proofs: no machine goes with pods on it; a leak stays visible |
| `SizingProofs` | lemmas: sums, largest elements, rounded quotients, packing; the operators of `BatchSizing` and `Capacity` |
| `MatchingProofs` | proof: what the walk of `MatchPodToPool` finds |
| `RoundProofs` | proofs: the safety properties of `ProvisioningRound` |

The provisioner is modelled twice, at two grains. `Provisioner` (in `BurstController`)
has one pool and pods that are alike; it keeps the cache, the conflicts, the other
workers and the life of the nodes. `ProvisioningRound` keeps what depends on the pods
themselves: which pool, which batch, which types, how many nodes. It sizes on the current
status, and nodes leave by one action (`NodeRemoved`), which makes the copy of a round of that
pool old, so that its write is refused. Both use `BatchSizing`.

### How state corresponds to the code

A burst node is one name. The provisioner draws a random `burst-<pool>-<suffix>` and
uses it for the instance's Name tag, the machine's hostname (so the Node object) and
the status entry; a member of `Names` stands for all three. Names are never reused,
so `Names` also bounds the launches.

* `pool` is the stored status: `st` the state of each entry (`Absent` without one),
  `idle` the entries with `lastPodFinished`, and the two counters. `cache` is the
  informer's copy. `latest` says who holds a copy with the stored resource version.
  It replaces version numbers: a write empties it, a read through the cache gives the
  reader the cache's standing. A holder in `latest` has a copy equal to `pool`, which
  is why a successful write is written as a change of `pool` (`CacheCurrent` and its
  companions in the proofs).
* `cooled` are the entries whose timer has run for a cooldown. `age` counts ticks of
  an instance's life up to `MaxAge`, past both boot timeouts.
* `node[n]` is the set of what the controller reads of a Node: registered, ready,
  managed, cordoned.
* `pod`, `annotated`, `settled` (past the debounce period), `queue`.
* `prov`, `nodeready`, `reaper`, `orphan` are the workers: where they are and what they
  hold. `handled` is a history variable: pods whose reconcile came to its end.

In `ProvisioningRound` a pool is a number, its place in the order of names; `existing`
are the pools there are and `current[q]` is `activeNodes + pendingNodes`. A pod that
waits has a `shape`: tolerations, affinity terms, and containers with requests and
limits in millicores, MiB and GPUs. `marked` are the annotated pods. `round` is the
worker: the pod it is about, and then the batch (which pods, and their shapes), the
candidate types, the room it saw, the launches asked for, left to do, and done, and
`stale`: whether another worker has written the pool's status meanwhile. In `IdleHistory`,
`disturbed` are the Running nodes that had a pod on them while their timer ran and have
not been empty for a cooldown since, up to the end of their teardown.

### How actions correspond to the code

A step is one call that another worker can see, in the order of the code. The
reconcile of the provisioner is `ProvBegin`, then `ProvLaunch`, `ProvLaunchFails` or
`ProvLaunchLost` once per node, `ProvPersist` or `ProvPersistFails`, `ProvAnnotate`
or `ProvAnnotateFails`. The teardown is `ReaperBegin` (step 1's write), `ReaperCordon`,
`ReaperMarkDraining`, `ReaperDrain`, `ReaperMarkTerminating`, `ReaperTerminate`,
`ReaperDelete`, `ReaperRemove`; `ReaperUpdateFails` ends it at any write.
The orphan detector lists twice (`OrphanListCloud`, `OrphanListNodes`), then works
through both cases; `OrphanClean` and `OrphanCleanFails` are `removeFromPoolStatus`.
A reconcile in `ProvisioningRound` is `RoundSkip`, or `RoundMatch` and then
`RoundTurnedAway`, or `RoundSize`, `RoundLaunch` once per node, `RoundPersist` or
`RoundPersistFails`, `RoundAnnotate`; pods come, leave and pools are created between any
two of them. `map` in `PROJECT.json` gives the lines of each.

A reconcile that ends without any effect and with a requeue (debounce, pool full, no
candidate, an error before the first launch) leaves its pod in the queue and is no
action. A read that is written back at once (`ReaperResetTimer`, `ReaperStartTimer`,
`ReaperBegin`, `OrphanClean`) is one step from the cache: if the cache is behind, the
write is refused and nothing happens.

### Faults

Eleven kinds, each at the call it belongs to: `launch`, `lost` (the instance runs, the
answer is lost), `status`, `annotate`, `terminate`, `cordon`, `drain` (any part of the pods
has been evicted when it fails or times out), `delete`, `flap`, `vanish` (the machine dies),
`crash` (restart or new leader). At most `MaxFaults` happen.

Conflicts of the pool's status are no faults: they come from the interleaving, without a
bound. Neither is a refusal of NodeReady's Node update: the Node it writes back is a cached
one and the kubelet writes the same object every few seconds, so it may be
refused at any time. The other write to a Node, `CordonNode`'s, reads the Node just before
from the API server; a conflict there is one of the causes of the `cordon` fault, as one of the
pod's annotation is of `annotate`.

`ProvisioningRound` has four kinds without a budget: `read`, `launch` (each candidate of each
launch may meet a lack of capacity or another error), `status` and `annotate`.

### Abstractions

* The cache moves to the latest version at once; it does not pass through the versions
  between. Reads of pods, Nodes and secrets return the current object.
* `BurstController` has one pool; all pods match it and are alike, `PodsPerNode` of them
  fit on a node, some candidate type fits. An evicted pod is gone (its successor is another pod).
* EC2 shows and lists an instance as soon as it runs. Errors of the listings end a sweep
  without effect and are left to the next tick.
* Where the role does not allow pod writes (`PodWrites = FALSE`, as in
  `config/rbac/role.yaml`), annotation and drain fail; `TRUE` is a deployment that
  grants them.
* `TalosLabels` says whether the machine config labels the Node by itself; `PoolLabels`
  whether the pool's `nodeLabels` hold the managed label.

* `ProvisioningRound`: two types the sort finds equal may come in either order (`sort.Slice`
  is not stable), and the first pod listed may be any. A pool always has its `spec.aws`
  (required for the only cloud there is). Sums and products stay far below 2^31 and 2^63,
  so `int32` and `int64` are integers; `math.Ceil` of the quotient of two small integers is
  exact.

## Runs

Each run uses the cfg of its name, on `MCBurst` unless another module is given.

| Run | Result | Shows |
|---|---|---|
| `one_fault` | holds | All workers, two launches into a pool of one, one fault of any kind anywhere: counters agree with entries (`PendingExact`, `ActiveCovers`), no waiting pod is lost (`NoPodForgotten`), every write is a legal ledger step (`RefinesLedger`) |
| `two_nodes` | holds | Two pods, three launches into a pool of two: a round is sized on a status that lacks the launches of another, and the entries still keep `maxNodes` (`StatusWithinMax`); two nodes live and are torn down beside each other (`TeardownOwned`, `DrainedBeforeTerminate`); `RefinesLedger` |
| `progress` | holds | `LeakReclaimed`, `PodServed`, `BootDecided` and `IdleReaped` with a crash, a failed or lost launch, or a failed write; `LeaksVisible` (no leaked instance has a managed Node, which would hide it from the orphan detector for ever) |
| `rounds` (`MCRound`) | holds | Three pods of four shapes, three pools: `MostSpecific` (the walk of the matching agrees with its declarative reading), `LaunchedFits` (what is launched holds each pod of the batch, units converted honestly), `RoundSuffices` (a batch sized by the largest requests can really be packed on its nodes) |
| `over_max` | violated | `CloudWithinMax`: more than `maxNodes` machines run, no fault needed |
| `teardown_stuck` | violated | `TeardownCompletes`: a restart strands a teardown and its machine |
| `orphan_kills_node` | violated | `OrphanSparesNodes`: a registered node that boots within its pool's timeout is terminated |
| `room_lost` | violated | `RoomReturned`: the orphan detector cleans a Terminating entry, `activeNodes` stays above the number of entries it counts for ever |
| `reaped_busy` (`IdleHistory`) | violated | `ReapedIdle`: with the role the repository ships, a pod bound as the teardown begins is not drained and its machine is terminated |
| `pod_starved` (`MCRound`) | violated | `PodGetsNode`: a pod is annotated although every launch failed, and never retried |
| `double_provision` (`MCRound`) | violated | `OneNodePerPod`: a batch counts pods that another round has launched for |
| `arch_ignored` (`MCRound`) | violated | `ArchRespected`: the first pod listed decides the architecture for all |

The violated properties are statements of the README, the comments or the types;
`findings` quotes each. (One more needs no run: README.md describes the enabled mark as
an opt-in annotation; in the code it is a label that only skips the debounce period,
and every unschedulable pod that matches a pool is provisioned for.) The pairs matter: the *status* keeps `maxNodes` and the *cloud*
does not; `activeNodes` is never too *low*, so no room is given out twice, but it may
be too high, so room is lost; no machine goes with pods on it where the role lets the
drain evict them (`two_nodes`, `NodesDrained`), and one does where it does not
(`reaped_busy`, `config/rbac/role.yaml`); what is launched fits each pod, but not its
architecture.

`ReapedIdle` has a second half, which the shorter counterexample hides: the pods of the
machine are gone *and its last one was a cooldown before the teardown began*. With
`PodWrites = TRUE` it fails at that half: the reaper looks at a node now and then, a pod that
comes and goes between two looks does not move `lastPodFinished`, and the node goes without
having been empty for the cooldown.

`RoomReturned` compares `activeNodes` with the entries it counts, to say that no room is lost
to an entry that is gone. Entries without a machine are another loss, and it does not watch
them: a refused write of the orphan detector is only logged, and the next sweep finds neither
Node nor instance to take it up again, so the entry, Pending or Running, stays.

`IdleReaped` holds with every failure in `progress`: one before the teardown only delays it.
The exception it names is a teardown that was left half way (`Stranded`), which
`teardown_stuck` shows to be for ever.

`PodGetsNode` also fails without any failure, in three ways `RoundFairSpec` shows with
other constants: a pool that is created after its pod was dropped, a node that is
removed before the annotated pod is bound to it, and a pod beside it in the batch that
fits no type. `RoundSuffices` leaves out three cases in which it fails: batches with GPUs
(the estimate does not count them), launches that fail, and launches that fall back on a
type with less memory than the first candidate (with `r6i.large` before `c6i.xlarge`, say;
a fallback never has less CPU, by the order of the candidates).

`LeaksVisible` depends on two things outside the controller. A machine config that sets the
managed label itself (`TalosLabels`) makes a machine whose status write was lost look like
any managed node: nothing terminates it. And the property fails when a call to terminate or delete
fails: both boot-timeout paths and the deletion of an orphaned Node only log the error and
drop the entry all the same, and a Node that is or becomes labelled (from an old copy of the
status) then hides its machine. With such a failure `LeakReclaimed` fails, too.

### Bounds

* Two names: one round can leak a machine and the next launch another, and two
  entries can be in different states under different writers. One name in `progress`,
  where the questions concern one node and one fault.
* One pod in `one_fault`: after a successful write only a restart queues it again, so what
  needs the rounds of two pods is left to `two_nodes`. There, three names and `MaxNodes = 2`:
  two launches fill the pool, and a round that is sized on a status that lacks one of them
  starts a third machine, whose entry must be refused. (With `MaxNodes = 1`, two pods are the
  smallest such case: `over_max`.)
* In `two_nodes` (`ReconcilersBound`) at most two machines boot: a third is either never to
  get an entry or takes the place of a node whose life is over. An instance ages only while
  NodeReady looks at its age, and not in a behaviour with a third launch; a boot timeout and
  the launch that takes its place meet in `one_fault`, which has no such bound.
* One fault per behaviour: the findings need one or none. The proofs have no bound.
* Ticks: an instance's age matters only against the two timeouts, `MaxAge` is the first
  age past both. The orphan timeout above, equal to and below the pool's all occur
  in some run (0/1, 1/1, 2/1).
* The orphan runner is left out of the two-pod runs (`ReconcilersSpec`) to keep them
  small; without it the system comes to rest, so these runs do not check for deadlock.
  `one_fault`, `progress` and the violated runs have the runner.
* `rounds`: three pods, so that a batch mixes shapes and needs one, two or three nodes in
  pools of one, two and three. The catalogue in `MCRound` has a pod of two containers, one
  whose memory fits a type in MiB and not in units of 10^6 bytes, one per architecture and
  one with a GPU; types that differ in CPU, memory, GPUs and architecture and one that is
  not in the table; pools of equal and of different specificity. Every pod leaves or is
  served in the end and the rounds stop, so deadlock is not checked.
* Names are interchangeable, and pods, in the safety runs; no symmetry is used with liveness.

### Fairness

`FairSpec` assumes weak fairness of: the informer (`SyncCache`), time (`Tick`, `Cool`,
`PodSettles`), and each worker as a whole. A controller-runtime worker runs as long
as its queue has items, returned errors are requeued with backoff, `RequeueAfter`
brings the others back, kubelets touch their Node every few seconds, and the orphan
ticker never stops. Nothing is assumed of the machines, the scheduler or the
workload: machines may never boot, pods may stay or leave. A worker is fair as a whole
and not per node, so nothing rules out that it serves one node before another.

`RoundFairSpec` assumes weak fairness of the worker (`RoundStep`) and, for each pod,
strong fairness of being taken off the queue: a workqueue hands out its items in
turn, so a pod that is there again and again is worked on again and again.

## Proofs

All safety properties of the passing runs and the refinement are theorems. None has a bound
on the nodes, pods, pools, types, containers or failures.

| Theorem | States | Module |
|---|---|---|
| `TypeCorrect` | `Spec => []TypeOK` | `BurstControllerProofs` |
| `Invariance` | `Spec => []IInv`, the inductive invariant | |
| `PendingCounted`, `ActiveCounted` | `Spec => []PendingExact`, `Spec => []ActiveCovers` | |
| `StatusBounded` | `Spec => []StatusWithinMax` | |
| `TeardownExclusive` | `Spec => []TeardownOwned` | |
| `PodsRemembered` | `Spec => []NoPodForgotten` | |
| `LedgerKept` | `Spec => RefinesLedger` | `LedgerProofs` |
| `NodesDrained` | `DrainAllowed => (Spec => []DrainedBeforeTerminate)` | `TeardownProofs` |
| `LeaksSeen` | `CleanupSucceeds => (Spec => []LeaksVisible)` | `LeakProofs` |
| `BestMatch` | what `MatchPodToPool` returns, for any set of pools | `MatchingProofs` |
| `RoundInvariant` | `RoundSpec => []RoundInv`, the inductive invariant | `RoundProofs` |
| `RoundTypes` | `RoundSpec => []RoundTypeOK` | |
| `PoolsMostSpecific` | `RoundSpec => []MostSpecific` | |
| `LaunchesFit` | `RoundSpec => []LaunchedFits` | |
| `RoundsSuffice` | `RoundSpec => []RoundSuffices` | |

### Assumptions

* `ClusterAssumption`, `NamesAssumption`: finite sets of names and pods, natural limits and
  timeouts. Any fault of any kind may happen at any time, up to any `MaxFaults`.
* `PoolAssumption`, `RoundAssumption`: pools are numbered by the order of their names and
  have finitely many rules and types; `maxNodes` is a natural number (the CRD has
  `Minimum=0`, `burstnodepool_types.go`); a pod has finitely many containers and no
  negative request (the API server rejects others).
* `CapacityAssumption`: the table of instance types has natural numbers.
* `NodesDrained` is for deployments in which the role allows pod writes and neither cordon
  nor drain fails (`DrainAllowed`): their errors are logged and the teardown goes on, so
  without it the property is false, as `reaped_busy` shows for the role in the
  repository. `LeaksSeen` needs `CleanupSucceeds`, for the reasons
  given under *Runs*. Both hypotheses hold in the runs that check the properties, and every
  other kind of failure is allowed, refused label updates among them.

### The four workers

None of the properties is inductive: each worker acts on what it read earlier. `IInv` adds
what a copy is worth. A cache with the latest version equals the stored status
(`CacheCurrent`). While a worker's copy is the latest, what it read is still so: there
is room for all launches of the round (`ProvRoom`), the entry to be promoted or
dropped is Pending (`StillPending`), the teardown's entry is where the reaper left it
(`StillTornDown`). Once another client has written, the worker's own write will be
refused and nothing need hold. `NamesApart` keeps launches in progress, which the
status does not know, apart from its entries, so that a round adds exactly as many
entries as it counts. The proof takes each action of each worker in turn; the `...Account`
lemmas say once what each kind of write does to the number of entries and the counters,
and `QuietStep` covers every action that leaves the status and its copies alone.

`NoPodForgotten` needs an invariant of its own (`PodsKept`): a waiting pod that is neither
queued nor handled is the one of a reconcile *in progress*, so that every way out of a
reconcile, which requeues its pod or records it in `handled`, keeps it; and only handled
pods are annotated, so that the early return for an annotated pod drops no other.

**The refinement.** `LedgerKept` maps each step of the process to one step of the ledger or
to none. A write of the status moves the names it changes; what makes the step legal in the
ledger (room for all that enter, Pending before Running, the teardown's order) is what `IInv`
says of the writer's copy. A step that leaves the status alone but forgets launches (a
refused write, a lost answer, a crash) is an `Abandon`. One fact had to be added to `IInv`:
a teardown's node still has its idle timer (`TimerRan`), since the ledger winds a
node down only from idleness.

**The drain.** Between the end of the drain and the termination the scheduler must not bind
another pod to the node. `DrainInv` says why: from the cordon on the Node is cordoned or
deleted, and no other Node of that name will come, because its machine has booted before
(`NodesBooted`, `VictimBooted`, `VictimCordoned`).

**Leaks.** A running machine without an entry has no managed Node (`NoEntryUnmanaged`).
NodeReady labels on the word of its copy, so the invariant must say what an *old* copy may
still show: a running machine with an entry in the cache and none in the status has lost its
Node and will get no other (`StaleStripped`). And every worker on its way to strike off
an entry has terminated the machine or deleted the Node (`StrikeInv`), also where the orphan
detector judges by two listings of different age.

### The round

`RoundInv` adds to the types: what a round may still launch has room below `maxNodes`
(`RoomKept`: others only take nodes away meanwhile); each candidate of a known type holds
each pod of the batch (`CandidatesFit`); only candidates are launched
(`LaunchedCandidates`); and the order was worked out for a batch that is not empty, whose
largest requests fit the first candidate, which has the least CPU of all (`Sized`). Pods that
leave or arrive and pools that are created later do not change what the round has worked out.

Four arguments are about data:

* *The walk.* `MatchPodToPool` is a recursive function over the numbers of the pools.
  `WalkHoldsBest` shows that after each step it holds the best of the pools seen (the
  smallest number at which it did not would follow one at which it did: `NatLeast`).
* *The units.* Requests are counted in units of 10^6 bytes, rounded up container by container,
  and compared with MiB: `MegabytesBound` and `PodBounds` show that the error is on the safe side
  for every amount.
* *The sums.* `SumFunction` is a fold over a set. `SubsetRecursion` defines a function on the
  subsets of a finite set, `SumRecursion` is the equation of the sum, and the least size of a
  set that breaks a claim replaces the induction (`SumBounds`, `SumAtMost`).
* *The packing.* `ceil(n / k)` nodes have room for n pods if each holds k (`Packing`); the
  estimate k times the largest CPU request and k times the largest memory request are within
  the first candidate (`EstimateBounds`); a fallback has no less of either
  (`SelectedSorted`, and the hypothesis on memory).

The library's induction theorems take an operator as a parameter, which the provers cannot
instantiate; so these proofs go by the smallest counterexample (`NatLeast`).

`IInv`, `DrainInv`, `LeakInv` and `RoundInv` were checked with TLC, on the constants of the
runs above, before they were proved.

### Only model-checked

The liveness properties (`LeakReclaimed`, `PodServed`, `BootDecided`, `IdleReaped`): fairness
and `ENABLED` are outside the prover. The counterexamples.

## Not modelled

Talos config patching (a stateless rewrite; its failure is a failed launch), metrics
(registered, never updated), generated code, flags, TLS and probes, the request fields
of EC2. EC2's eventual consistency (a listing that lags behind a launch) is left out: the
code has no notion of it, and a model would need a delay the source does not bound.
`PodsRequestGPU` is not called by the controller.

## Plan

1. Done: the shared state and the four workers, the ledger, the inductive invariant;
   matching, selection, sizing and the launch fallback in `ProvisioningRound`; the idle
   timer's history; every waiting pod is remembered.
2. Done: proofs of the refinement, of the drain, of visible leaks, of the matching and of all
   properties of the round.
3. Proofs: what keeps the room that `room_lost` loses bounded (an upper bound on
   `activeNodes`), and the steps of the liveness arguments that are not temporal.
4. Two pools in `BurstController`, and EC2 listings that lag.
