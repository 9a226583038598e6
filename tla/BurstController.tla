-------------------------- MODULE BurstController --------------------------
(***************************************************************************)
(* The manager process (cmd/main.go): the three reconcilers and the orphan *)
(* runner work concurrently on the state of module Cluster, one worker     *)
(* each, and the process may be restarted at any point of their work.      *)
(***************************************************************************)
EXTENDS Provisioner, NodeReady, Reaper, OrphanDetector

workers == <<provVars, nodeready, reaper, orphan>>
vars    == <<clusterVars, workers>>

(* A restart, or a new leader: what the workers hold in memory is lost,    *)
(* the informers list everything anew and enqueue every pod they find.     *)
Restart ==
  /\ Fault("crash")
  /\ cache' = pool /\ latest' = {"cache"}
  /\ queue' = {p \in Pods : pod[p] \notin {"unseen", "gone"}}
  /\ prov' = ProvIdle /\ nodeready' = NodeReadyIdle
  /\ reaper' = ReaperIdle /\ orphan' = OrphanRest
  /\ UNCHANGED <<pool, cooled, cloudVars, node, pod, annotated, settled, handled>>

ClusterStep     == ClusterNext /\ UNCHANGED workers
ProvisionerStep == ProvNext /\ UNCHANGED <<nodeready, reaper, orphan>>
NodeReadyStep   == NodeReadyNext /\ UNCHANGED <<provVars, reaper, orphan>>
ReaperStep      == ReaperNext /\ UNCHANGED <<provVars, nodeready, orphan>>
OrphanStep      == OrphanNext /\ UNCHANGED <<provVars, nodeready, reaper>>

Init == ClusterInit /\ ProvInit /\ NodeReadyInit /\ ReaperInit /\ OrphanInit

Next ==
  \/ ClusterStep
  \/ ProvisionerStep
  \/ NodeReadyStep
  \/ ReaperStep
  \/ OrphanStep
  \/ Restart

Spec == Init /\ [][Next]_vars

(***************************************************************************)
(* What keeps running: the informers deliver, time passes, each worker     *)
(* goes on with its reconcile, errors and RequeueAfter bring pods and      *)
(* nodes back to their workqueues, and the orphan ticker never stops.      *)
(* Nothing is assumed of the machines, the scheduler or the workload.      *)
(***************************************************************************)
Fairness ==
  /\ WF_vars(SyncCache /\ UNCHANGED workers)
  /\ \A p \in Pods : WF_vars(PodSettles(p) /\ UNCHANGED workers)
  /\ \A n \in Names : /\ WF_vars(Tick(n) /\ UNCHANGED workers)
                      /\ WF_vars(Cool(n) /\ UNCHANGED workers)
  /\ WF_vars(ProvisionerStep)
  /\ WF_vars(NodeReadyStep)
  /\ WF_vars(ReaperStep)
  /\ WF_vars(OrphanStep)

FairSpec == Spec /\ Fairness
----------------------------------------------------------------------------
(* Every variable stays in its type. *)
TypeOK ==
  /\ ClusterTypeOK /\ ProvTypeOK /\ NodeReadyTypeOK /\ ReaperTypeOK /\ OrphanTypeOK

(* status.pendingNodes is the number of Pending entries, although four     *)
(* workers keep it up from copies of different age.                        *)
PendingExact == pool.pending = Cardinality(InState(pool, {"Pending"}))

(* status.activeNodes never falls below the number of entries past Pending, *)
(* so the provisioner never sees room that is taken.                       *)
ActiveCovers == pool.active >= Cardinality(InState(pool, ActiveStates))

(* The stored status never claims more nodes than spec.scaling.maxNodes,   *)
(* although the provisioner sizes its batch on a cached status.            *)
StatusWithinMax == pool.active + pool.pending <= MaxNodes

(* A pod that waits for room is queued, being worked on, or was worked on  *)
(* to the end of a reconcile: errors, conflicts and restarts lose none.    *)
NoPodForgotten == \A p \in Unscheduled : p \in queue \cup handled \cup {prov.pod}

(* The state the reaper wrote last, at each point of a teardown. *)
TeardownStage ==
  [pc \in {"cordon", "markDraining", "drain", "markTerminating", "terminate",
           "delete", "remove"} |->
     CASE pc \in {"cordon", "markDraining"}    -> "Cordoned"
       [] pc \in {"drain", "markTerminating"}  -> "Draining"
       [] OTHER                                -> "Terminating"]

(* While the reaper tears a node down nobody else moves its entry on: the  *)
(* stored entry is in the state the reaper last wrote, or was cleaned away *)
(* by the orphan detector.                                                 *)
TeardownOwned ==
  reaper.pc # "idle" =>
    pool.st[reaper.node] \in {TeardownStage[reaper.pc], "Absent"}

(* The reaper terminates no machine under a workload: from the end of the  *)
(* drain on no pod is on the node, whatever the scheduler binds meanwhile. *)
(* (Needs a role that may evict, and cordon and drain calls that succeed.) *)
DrainedBeforeTerminate ==
  reaper.pc \in {"markTerminating", "terminate", "delete"}
    => PodsOn(reaper.node) = {}

(* The refinement mapping: a name is Absent until its launch is entered    *)
(* or given up, and Retired once its instance has no entry any more.       *)
InFlight == IF prov.pc = "launch" THEN prov.launched ELSE {}
Life ==
  [n \in Names |->
     IF pool.st[n] # "Absent" THEN pool.st[n]
     ELSE IF instance[n] = "none" \/ n \in InFlight THEN "Absent" ELSE "Retired"]
Ledger == INSTANCE PoolLedger
            WITH life <- Life, idle <- pool.idle,
                 active <- pool.active, pending <- pool.pending

(* The stored status behaves as the ledger of PoolLedger: every write,     *)
(* made from whichever copy, is one legal step of the latest ledger, and a *)
(* name that was struck off never comes back.                              *)
RefinesLedger == Ledger!LedgerSpec
----------------------------------------------------------------------------
(* A running instance that no entry and no launch in progress accounts for. *)
Leaked(n) == Up(n) /\ n \notin Tracked(pool) \cup InFlight

(* A leaked instance never has a managed Node, which would hide it from    *)
(* every sweep of the orphan detector: whatever launches, copies of the    *)
(* status and restarts lose, the nodes' labels agree with the entries.     *)
(* (Needs machines that do not label their Node themselves, and calls to   *)
(* terminate instances and delete Nodes that succeed.)                     *)
LeaksVisible == \A n \in Names : Leaked(n) => ~ Managed(n)

(* An instance does not stay leaked: the orphan detector terminates it,    *)
(* after a crash, a lost answer of EC2 or a refused status write.          *)
LeakReclaimed == \A n \in Names : Leaked(n) ~> ~ Leaked(n)

(* The provisioner gets to every pod that keeps waiting, unless the pool   *)
(* is full: debounce, errors, conflicts and restarts only delay it.        *)
PodServed ==
  \A p \in Pods :
    pod[p] = "unschedulable" ~>
      \/ p \in handled \/ pod[p] # "unschedulable"
      \/ CurrentNodes(pool) >= MaxNodes

(* A Pending entry whose machine has registered is decided: promoted,      *)
(* given up on after the boot timeout, or cleaned away.                    *)
BootDecided ==
  \A n \in Names :
    pool.st[n] = "Pending" /\ node[n] # {} ~>
      pool.st[n] # "Pending" \/ node[n] = {}

(* A teardown that is under way in the status and in no reconcile. *)
Stranded(n) ==
  /\ pool.st[n] \in {"Cordoned", "Draining", "Terminating"}
  /\ reaper.pc = "idle" \/ reaper.node # n

(* A managed Running node that stays empty is shut down: failures and      *)
(* refused writes before its teardown only delay it, and nothing but one   *)
(* in the middle of the teardown stops it.                                 *)
IdleReaped ==
  \A n \in Names :
    pool.st[n] = "Running" /\ Managed(n) ~>
      ~ Up(n) \/ PodsOn(n) # {} \/ Stranded(n)
----------------------------------------------------------------------------
(* What the documentation, the comments and the types say of the program,  *)
(* and the program does not keep.                                          *)

(* types.go: maxNodes is the "Maximum number of nodes this pool can        *)
(* provision."                                                             *)
CloudWithinMax == Cardinality({n \in Names : Up(n)}) <= MaxNodes

(* README: orphan detection "cleans up cloud instances that no longer have *)
(* a corresponding Kubernetes node": it terminates no other.               *)
OrphanSparesNodes ==
  [][\A n \in Names :
       orphan' # orphan /\ Up(n) /\ instance'[n] = "terminated" => node[n] = {}]_vars

(* README: automatic scale-down reaps idle nodes; a teardown that began    *)
(* ends with the machine gone.                                             *)
TeardownCompletes ==
  \A n \in Names :
    pool.st[n] \in {"Cordoned", "Draining", "Terminating"} ~> ~ Up(n)

(* types.go: activeNodes is the "Number of nodes in Running state."; when  *)
(* the machines are gone the counter comes down to the entries that are    *)
(* left, those in a teardown included, and their room below maxNodes back. *)
RoomReturned ==
  (\A n \in Names : ~ Up(n)) ~>
    \/ pool.active = Cardinality(InState(pool, ActiveStates))
    \/ \E n \in Names : Up(n)
=============================================================================
