--------------------------- MODULE OrphanDetector ---------------------------
(***************************************************************************)
(* OrphanReconciler (orphan_reconciler.go), run from a ticker by           *)
(* orphanRunner: lists the instances in the cloud, then the managed Node   *)
(* objects, and works through the two differences from those snapshots.    *)
(***************************************************************************)
EXTENDS Cluster

VARIABLE orphan   \* the runner: program counter, the two work lists, the name
                  \* whose status entry is being cleaned

OrphanRest == [pc |-> "sweep", cloud |-> {}, nodes |-> {}, name |-> "none"]

(* Mutation of ListManagedNodes: the status is asked instead of EC2. *)
ListTrackedNodes == {n \in Tracked(cache) : Up(n)}

(* The tagged instances that are pending or running. *)
ListManagedNodes == {n \in Names : Up(n)}

OrphanListCloud ==
  /\ orphan = OrphanRest
  /\ orphan' = [orphan EXCEPT !.pc = "list", !.cloud = ListManagedNodes]
  /\ UNCHANGED clusterVars

(* Then the managed nodes.  Kept are the instances without a managed Node  *)
(* and the managed Nodes without a listed instance.                        *)
OrphanListNodes ==
  LET managed == {n \in Names : Managed(n)}
  IN  /\ orphan.pc = "list"
      /\ orphan' = [orphan EXCEPT !.pc = "sweep",
                                  !.cloud = @ \ managed,
                                  !.nodes = managed \ orphan.cloud]
      /\ UNCHANGED clusterVars

(* Case 1, an instance without a Node that is still allowed to boot. *)
OrphanSkip(n) ==
  /\ orphan.pc = "sweep" /\ n \in orphan.cloud
  /\ age[n] < OrphanBootTimeout
  /\ orphan' = [orphan EXCEPT !.cloud = @ \ {n}]
  /\ UNCHANGED clusterVars

(* Case 1, past the boot timeout.  A failed termination is only logged. *)
OrphanTerminate(n) ==
  /\ orphan.pc = "sweep" /\ n \in orphan.cloud
  /\ age[n] >= OrphanBootTimeout
  /\ \/ TerminateNode(n) /\ UNCHANGED faults
     \/ Fault("terminate") /\ UNCHANGED instance
  /\ orphan' = [orphan EXCEPT !.pc = "clean", !.cloud = @ \ {n}, !.name = n]
  /\ UNCHANGED <<poolVars, age, node, podVars>>

(* Case 2, a Node without an instance, after every case 1.  A failed       *)
(* deletion is only logged.                                                *)
OrphanDelete(n) ==
  /\ orphan.pc = "sweep" /\ orphan.cloud = {} /\ n \in orphan.nodes
  /\ \/ DeleteNode(n) /\ UNCHANGED faults
     \/ Fault("delete") /\ UNCHANGED node
  /\ orphan' = [orphan EXCEPT !.pc = "clean", !.nodes = @ \ {n}, !.name = n]
  /\ UNCHANGED <<poolVars, cloudVars, podVars>>

(* removeFromPoolStatus drops the entry and takes it off the counter that  *)
(* its state belongs to; a Terminating entry is on neither.                *)
DropOrphan(status, n) ==
  LET less(count) == IF count - 1 < 0 THEN 0 ELSE count - 1
  IN  [WithoutEntry(status, n) EXCEPT
         !.pending = IF status.st[n] = "Pending" THEN less(@) ELSE @,
         !.active  = IF status.st[n] \in {"Running", "Cordoned", "Draining"}
                       THEN less(@) ELSE @]

OrphanClean ==
  /\ orphan.pc = "clean"
  /\ orphan.name \in Tracked(cache)
  /\ StatusUpdate("cache", DropOrphan(cache, orphan.name), {})
  /\ orphan' = [orphan EXCEPT !.pc = "sweep", !.name = "none"]
  /\ UNCHANGED <<cache, cloudVars, node, podVars, faults>>

(* No pool has the entry, or the status update fails, which is only logged. *)
OrphanCleanFails ==
  /\ orphan.pc = "clean"
  /\ \/ orphan.name \notin Tracked(cache) /\ UNCHANGED faults
     \/ orphan.name \in Tracked(cache) /\ ~ Fresh("cache") /\ UNCHANGED faults
     \/ orphan.name \in Tracked(cache) /\ Fresh("cache") /\ Fault("status")
  /\ orphan' = [orphan EXCEPT !.pc = "sweep", !.name = "none"]
  /\ UNCHANGED <<poolVars, cloudVars, node, podVars>>

OrphanInit == orphan = OrphanRest

OrphanNext ==
  \/ OrphanListCloud \/ OrphanListNodes \/ OrphanClean \/ OrphanCleanFails
  \/ \E n \in Names : OrphanSkip(n) \/ OrphanTerminate(n) \/ OrphanDelete(n)

OrphanTypeOK ==
  orphan \in [pc : {"sweep", "list", "clean"},
              cloud : SUBSET Names, nodes : SUBSET Names,
              name : Names \cup {"none"}]
=============================================================================
