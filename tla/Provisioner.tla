---------------------------- MODULE Provisioner ----------------------------
(***************************************************************************)
(* ProvisionerReconciler (provisioner_reconciler.go): one worker takes     *)
(* pods off a workqueue and launches nodes for all the pods that wait.     *)
(* The instances are launched one by one before the status that counts     *)
(* them is written.  A reconcile that ends in RequeueAfter, or in an error *)
(* before its first launch, changes nothing and leaves its pod queued; it  *)
(* is no action here.                                                      *)
(***************************************************************************)
EXTENDS Cluster

VARIABLES
  prov,     \* the worker: program counter, pod, launches left, names launched
  handled   \* pods whose reconcile has come to its end (history)

provVars == <<prov, handled>>

ProvIdle == [pc |-> "idle", pod |-> "none", left |-> 0, launched |-> {}]

(* Mutation of Requeue: the error is swallowed and the pod not retried. *)
RequeueNothing(p) ==
  /\ queue' = queue
  /\ prov' = ProvIdle

(* Hands the pod back to the workqueue and ends the reconcile. *)
Requeue(p) ==
  /\ queue' = queue \cup {p}
  /\ prov' = ProvIdle
----------------------------------------------------------------------------
(* The early returns without a requeue: the pod is gone, scheduled, or     *)
(* already annotated (and so past its debounce period).                    *)
ProvSkip(p) ==
  /\ prov.pc = "idle" /\ p \in queue
  /\ pod[p] # "unschedulable" \/ p \in annotated
  /\ queue' = queue \ {p}
  /\ UNCHANGED <<poolVars, cloudVars, node, pod, annotated, settled, faults, provVars>>

(* Past the debounce period and below the limit the cached status shows:   *)
(* size the batch over every unschedulable pod, annotated ones included.   *)
ProvBegin(p) ==
  /\ prov.pc = "idle" /\ p \in queue
  /\ pod[p] = "unschedulable" /\ p \notin annotated
  /\ p \in BurstEnabled \cup settled
  /\ LET needed == CalculateNodesNeeded(Cardinality(Unscheduled), PodsPerNode,
                                        CurrentNodes(cache), MaxNodes)
     IN  /\ needed > 0
         /\ prov' = [pc |-> "launch", pod |-> p, left |-> needed, launched |-> {}]
  /\ queue' = queue \ {p}
  /\ ReadPool("provisioner")
  /\ UNCHANGED <<pool, cache, cooled, cloudVars, node, pod, annotated, settled,
                 faults, handled>>

(* Mutation of Launching: the loop runs once too often. *)
LaunchingOnceMore == prov.pc = "launch" /\ prov.left >= 0

(* Inside the loop "for range nodesNeeded". *)
Launching == prov.pc = "launch" /\ prov.left > 0

(* LaunchNode returns an instance: it is added to the local copy as Pending. *)
ProvLaunch(n) ==
  /\ Launching
  /\ instance[n] = "none"
  /\ instance' = [instance EXCEPT ![n] = "booting"]
  /\ prov' = [prov EXCEPT !.left = @ - 1, !.launched = @ \cup {n}]
  /\ UNCHANGED <<poolVars, age, node, podVars, faults, handled>>

(* No instance: the Talos config cannot be patched, every candidate type   *)
(* is out of capacity, or EC2 returns another error.  The loop goes on.    *)
ProvLaunchFails ==
  /\ Launching
  /\ \/ (\A n \in Names : instance[n] # "none") /\ UNCHANGED faults
     \/ Fault("launch")
  /\ prov' = [prov EXCEPT !.left = @ - 1]
  /\ UNCHANGED <<poolVars, cloudVars, node, podVars, handled>>

(* EC2 starts the instance but RunInstances returns an error. *)
ProvLaunchLost(n) ==
  /\ Launching
  /\ instance[n] = "none" /\ Fault("lost")
  /\ instance' = [instance EXCEPT ![n] = "booting"]
  /\ prov' = [prov EXCEPT !.left = @ - 1]
  /\ UNCHANGED <<poolVars, age, node, podVars, handled>>

(* The copy the provisioner writes: the status it read and its launches. *)
WithLaunched(status, names) ==
  [status EXCEPT !.st = [n \in Names |-> IF n \in names THEN "Pending" ELSE @[n]],
                 !.pending = @ + Cardinality(names)]

(* Mutation of ProvPersist: a conflict is overcome on the spot, by writing *)
(* the launches into whatever the status has become.                       *)
ProvPersistRetried ==
  /\ prov.pc = "launch" /\ prov.left = 0
  /\ pool' = WithLaunched(pool, prov.launched) /\ latest' = {}
  /\ prov' = [prov EXCEPT !.pc = "annotate"]
  /\ UNCHANGED <<cache, cooled, cloudVars, node, podVars, faults, handled>>

(* Status().Update with all the launches of the round. *)
ProvPersist ==
  /\ prov.pc = "launch" /\ prov.left = 0
  /\ StatusUpdate("provisioner", WithLaunched(pool, prov.launched), {})
  /\ prov' = [prov EXCEPT !.pc = "annotate"]
  /\ UNCHANGED <<cache, cloudVars, node, podVars, faults, handled>>

(* A conflict or another API error: the launches are forgotten and the pod *)
(* is retried.                                                             *)
ProvPersistFails ==
  /\ prov.pc = "launch" /\ prov.left = 0
  /\ \/ ~ Fresh("provisioner") /\ UNCHANGED faults
     \/ Fresh("provisioner") /\ Fault("status")
  /\ Requeue(prov.pod)
  /\ UNCHANGED <<poolVars, cloudVars, node, pod, annotated, settled, handled>>

(* The pod's update is accepted if the role allows it and the pod has not  *)
(* changed since it was read; a failure is only logged.                    *)
ProvAnnotate ==
  /\ prov.pc = "annotate"
  /\ annotated' = IF PodWrites THEN annotated \cup ({prov.pod} \cap Unscheduled)
                               ELSE annotated
  /\ handled' = handled \cup {prov.pod}
  /\ prov' = ProvIdle
  /\ UNCHANGED <<poolVars, cloudVars, node, pod, settled, queue, faults>>

ProvAnnotateFails ==
  /\ prov.pc = "annotate" /\ PodWrites /\ Fault("annotate")
  /\ handled' = handled \cup {prov.pod}
  /\ prov' = ProvIdle
  /\ UNCHANGED <<poolVars, cloudVars, node, podVars>>

ProvInit == prov = ProvIdle /\ handled = {}

ProvNext ==
  \/ \E p \in Pods : ProvSkip(p) \/ ProvBegin(p)
  \/ \E n \in Names : ProvLaunch(n) \/ ProvLaunchLost(n)
  \/ ProvLaunchFails \/ ProvPersist \/ ProvPersistFails
  \/ ProvAnnotate \/ ProvAnnotateFails

ProvTypeOK ==
  /\ prov \in [pc       : {"idle", "launch", "annotate"},
               pod      : Pods \cup {"none"},
               left     : Nat,
               launched : SUBSET Names]
  /\ handled \subseteq Pods
=============================================================================
