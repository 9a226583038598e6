------------------------------- MODULE Reaper -------------------------------
(***************************************************************************)
(* ReaperReconciler (reaper_reconciler.go) with the Drainer it calls       *)
(* (drain.go): keeps the idle timer of a Running node and, once it has run *)
(* for the cooldown, tears the node down.  The teardown is one reconcile   *)
(* that writes the status four times, each time with the version its last  *)
(* write returned; an error anywhere ends it, and the retry finds the node *)
(* no longer Running and only requeues.                                    *)
(***************************************************************************)
EXTENDS Cluster

VARIABLE reaper   \* the worker: program counter and the node it works on

ReaperIdle == [pc |-> "idle", node |-> "none"]

(* Mutation of Reapable: the state of the entry is not looked at. *)
ReapableAnyState(n) ==
  /\ reaper.pc = "idle"
  /\ Managed(n)
  /\ n \in Tracked(cache)

(* Past the early returns: a managed Node with a Running entry. *)
Reapable(n) ==
  /\ reaper.pc = "idle"
  /\ Managed(n)
  /\ cache.st[n] = "Running"

(* Mutation of IsNodeIdle: DaemonSet pods, which every node has, count. *)
IsNodeBare(n) == node[n] = {}

(* No pod but those of DaemonSets and those that ended (Pods has neither). *)
IsNodeIdle(n) == PodsOn(n) = {}

(* Reading the pool and writing it back at once: a write that the API      *)
(* server refuses because the cache is behind has no effect.               *)
ReaperResetTimer(n) ==
  /\ Reapable(n) /\ ~ IsNodeIdle(n)
  /\ StatusUpdate("cache", [cache EXCEPT !.idle = @ \ {n}], {})
  /\ UNCHANGED <<cache, cloudVars, node, podVars, faults, reaper>>

ReaperStartTimer(n) ==
  /\ Reapable(n) /\ IsNodeIdle(n)
  /\ n \notin cache.idle
  /\ StatusUpdate("cache", [cache EXCEPT !.idle = @ \cup {n}], {})
  /\ UNCHANGED <<cache, cloudVars, node, podVars, faults, reaper>>

(* Step 1, the cooldown is over: the entry is marked Cordoned. *)
ReaperBegin(n) ==
  /\ Reapable(n) /\ IsNodeIdle(n)
  /\ n \in cache.idle /\ n \in cooled
  /\ StatusUpdate("cache", [cache EXCEPT !.st[n] = "Cordoned"], {"reaper"})
  /\ reaper' = [pc |-> "cordon", node |-> n]
  /\ UNCHANGED <<cache, cloudVars, node, podVars, faults>>

(* Mutation of CordonNode: the flag is set on a copy and not written. *)
CordonNothing(flags) == flags

(* Sets spec.unschedulable of an existing Node. *)
CordonNode(flags) == IF flags = {} THEN {} ELSE flags \cup {"cordoned"}

(* An error of CordonNode, such as a missing Node, is only logged. *)
ReaperCordon ==
  /\ reaper.pc = "cordon"
  /\ \/ /\ node' = [node EXCEPT ![reaper.node] = CordonNode(@)]
        /\ UNCHANGED faults
     \/ Fault("cordon") /\ UNCHANGED node
  /\ reaper' = [reaper EXCEPT !.pc = "markDraining"]
  /\ UNCHANGED <<poolVars, cloudVars, podVars>>

(* The status writes of steps 2 and 3. *)
ReaperMark(pc, state, next) ==
  /\ reaper.pc = pc
  /\ StatusUpdate("reaper", [pool EXCEPT !.st[reaper.node] = state], {"reaper"})
  /\ reaper' = [reaper EXCEPT !.pc = next]
  /\ UNCHANGED <<cache, cloudVars, node, podVars, faults>>

ReaperMarkDraining    == ReaperMark("markDraining", "Draining", "drain")
ReaperMarkTerminating == ReaperMark("markTerminating", "Terminating", "terminate")

Evict(pods) == pod' = [p \in Pods |-> IF p \in pods THEN "gone" ELSE pod[p]]

(* RunNodeDrain evicts the pods of the node and waits until they are gone. *)
DrainNode(n) == Evict(PodsOn(n))

(* The drain of step 2 succeeds only if the role allows evictions.  One    *)
(* that fails or times out, with some of the pods evicted, is only logged  *)
(* and the teardown goes on.                                               *)
ReaperDrain ==
  /\ reaper.pc = "drain"
  /\ \/ PodWrites /\ DrainNode(reaper.node) /\ UNCHANGED faults
     \/ /\ PodWrites /\ Fault("drain")
        /\ \E evicted \in SUBSET PodsOn(reaper.node) : Evict(evicted)
     \/ ~ PodWrites /\ UNCHANGED <<pod, faults>>
  /\ reaper' = [reaper EXCEPT !.pc = "markTerminating"]
  /\ UNCHANGED <<poolVars, cloudVars, node, annotated, settled, queue>>

(* Step 3: an error of TerminateNode ends the reconcile. *)
ReaperTerminate ==
  /\ reaper.pc = "terminate"
  /\ \/ /\ TerminateNode(reaper.node)
        /\ reaper' = [reaper EXCEPT !.pc = "delete"]
        /\ UNCHANGED faults
     \/ /\ Fault("terminate")
        /\ reaper' = ReaperIdle
        /\ UNCHANGED instance
  /\ UNCHANGED <<poolVars, age, node, podVars>>

(* Step 4: an error of the Node's deletion is only logged. *)
ReaperDelete ==
  /\ reaper.pc = "delete"
  /\ \/ DeleteNode(reaper.node) /\ UNCHANGED faults
     \/ Fault("delete") /\ UNCHANGED node
  /\ reaper' = [reaper EXCEPT !.pc = "remove"]
  /\ UNCHANGED <<poolVars, cloudVars, podVars>>

(* Step 5: removes the entry; ActiveNodes does not go below zero. *)
DropReaped(status, n) ==
  [WithoutEntry(status, n) EXCEPT !.active = IF @ - 1 < 0 THEN 0 ELSE @ - 1]

ReaperRemove ==
  /\ reaper.pc = "remove"
  /\ StatusUpdate("reaper", DropReaped(pool, reaper.node), {})
  /\ reaper' = ReaperIdle
  /\ UNCHANGED <<cache, cloudVars, node, podVars, faults>>

(* A status write is refused, or fails otherwise: the reconcile ends.      *)
ReaperUpdateFails ==
  /\ reaper.pc \in {"markDraining", "markTerminating", "remove"}
  /\ \/ ~ Fresh("reaper") /\ UNCHANGED faults
     \/ Fresh("reaper") /\ Fault("status")
  /\ reaper' = ReaperIdle
  /\ UNCHANGED <<poolVars, cloudVars, node, podVars>>

ReaperInit == reaper = ReaperIdle

ReaperNext ==
  \/ \E n \in Names : ReaperResetTimer(n) \/ ReaperStartTimer(n) \/ ReaperBegin(n)
  \/ ReaperCordon \/ ReaperMarkDraining \/ ReaperDrain \/ ReaperMarkTerminating
  \/ ReaperTerminate \/ ReaperDelete \/ ReaperRemove \/ ReaperUpdateFails

ReaperTypeOK ==
  reaper \in [pc : {"idle", "cordon", "markDraining", "drain", "markTerminating",
                    "terminate", "delete", "remove"},
              node : Names \cup {"none"}]
=============================================================================
