----------------------------- MODULE NodeReady -----------------------------
(***************************************************************************)
(* NodeReadyReconciler (provisioner_reconciler.go): promotes the entry of  *)
(* a Pending node that is ready and gives up on one that is past the boot  *)
(* timeout.  The kubelet's reports and the 15 second requeue bring every   *)
(* Node object back to it, so it needs no queue here.  The outside effect  *)
(* (labels, termination) comes before the status write, and is made with   *)
(* what the cache showed.                                                  *)
(***************************************************************************)
EXTENDS Cluster

VARIABLE nodeready   \* the worker: program counter and the node it works on

NodeReadyIdle == [pc |-> "idle", node |-> "none"]

(* Mutation of Promote: the node is counted twice. *)
PromoteStillPending(status, n) ==
  [status EXCEPT !.st[n] = "Running", !.active = @ + 1]

Promote(status, n) ==
  [status EXCEPT !.st[n] = "Running", !.pending = @ - 1, !.active = @ + 1]

(* Mutation of DropPending: the wrong counter goes down. *)
DropPendingActive(status, n) == [WithoutEntry(status, n) EXCEPT !.active = @ - 1]

DropPending(status, n) == [WithoutEntry(status, n) EXCEPT !.pending = @ - 1]

(* Mutation of IsPending: the state of the entry is not looked at. *)
IsTracked(n) == cache.st[n] # "Absent"

(* Mutation of IsPending: a Node without an entry passes for a new one. *)
IsNotActive(n) == cache.st[n] \notin ActiveStates

IsPending(n) == cache.st[n] = "Pending"

(* Mutation of PastBootTimeout: the comparison is the wrong way round. *)
WithinBootTimeout(n) == age[n] < BootTimeout

PastBootTimeout(n) == age[n] > BootTimeout

IsNodeReady(n) == "ready" \in node[n]

(* The node of a Pending entry is ready: copy the pool's labels to it.     *)
(* The kubelet writes its Node all the time, so the copy that is updated   *)
(* may be old at any time and the update refused, which is only logged.    *)
LabelNode(n) ==
  /\ nodeready.pc = "idle"
  /\ IsPending(n) /\ IsNodeReady(n)
  /\ \/ node' = [node EXCEPT ![n] = @ \cup (IF PoolLabels THEN {"managed"} ELSE {})]
     \/ UNCHANGED node
  /\ nodeready' = [pc |-> "promote", node |-> n]
  /\ ReadPool("nodeready")
  /\ UNCHANGED <<pool, cache, cooled, cloudVars, podVars, faults>>

(* Registered, not ready and past the boot timeout: terminate.  A failed   *)
(* termination is only logged.                                             *)
BootTimedOut(n) ==
  /\ nodeready.pc = "idle"
  /\ IsPending(n) /\ node[n] # {} /\ ~ IsNodeReady(n)
  /\ PastBootTimeout(n)
  /\ \/ TerminateNode(n) /\ UNCHANGED faults
     \/ Fault("terminate") /\ UNCHANGED instance
  /\ nodeready' = [pc |-> "expire", node |-> n]
  /\ ReadPool("nodeready")
  /\ UNCHANGED <<pool, cache, cooled, age, node, podVars>>

(* The status update that ends either path. *)
NodeReadyUpdate ==
  /\ \/ /\ nodeready.pc = "promote"
        /\ StatusUpdate("nodeready", Promote(pool, nodeready.node), {})
     \/ /\ nodeready.pc = "expire"
        /\ StatusUpdate("nodeready", DropPending(pool, nodeready.node), {})
  /\ nodeready' = NodeReadyIdle
  /\ UNCHANGED <<cache, cloudVars, node, podVars, faults>>

(* A conflict or another API error: the reconcile is retried from the start. *)
NodeReadyUpdateFails ==
  /\ nodeready.pc # "idle"
  /\ \/ ~ Fresh("nodeready") /\ UNCHANGED faults
     \/ Fresh("nodeready") /\ Fault("status")
  /\ nodeready' = NodeReadyIdle
  /\ UNCHANGED <<poolVars, cloudVars, node, podVars>>

NodeReadyInit == nodeready = NodeReadyIdle

NodeReadyNext ==
  \/ \E n \in Names : LabelNode(n) \/ BootTimedOut(n)
  \/ NodeReadyUpdate \/ NodeReadyUpdateFails

NodeReadyTypeOK ==
  nodeready \in [pc : {"idle", "promote", "expire"}, node : Names \cup {"none"}]
=============================================================================
