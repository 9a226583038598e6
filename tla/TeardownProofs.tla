--------------------------- MODULE TeardownProofs ---------------------------
(***************************************************************************)
(* Proof that the reaper terminates no machine under a workload, for every *)
(* number of nodes and pods and in every interleaving with the scheduler,  *)
(* the kubelets and the other workers.                                     *)
(***************************************************************************)
EXTENDS BurstControllerProofs

(* Only a machine that has booted has a Node object, and the reaper works  *)
(* on such a machine: none of its Nodes comes into being (uncordoned) once *)
(* its teardown has begun.                                                 *)
NodesBooted ==
  \A n \in Names : node[n] # {} => instance[n] \in {"joined", "terminated"}
VictimBooted ==
  reaper.pc # "idle" => instance[reaper.node] \in {"joined", "terminated"}

(* From the cordon on the Node stays cordoned, or is deleted. *)
VictimCordoned ==
  reaper.pc \notin {"idle", "cordon"} =>
    node[reaper.node] = {} \/ "cordoned" \in node[reaper.node]

DrainInv == NodesBooted /\ VictimBooted /\ VictimCordoned /\ DrainedBeforeTerminate

(* The role lets the manager evict pods, cordon and drain do not fail. *)
DrainAllowed == PodWrites /\ FaultKinds \cap {"cordon", "drain"} = {}
----------------------------------------------------------------------------
(* No pod comes to the node that is being torn down. *)
NoneComes ==
  \A p \in Pods : reaper.pc # "idle" /\ pod'[p] = reaper.node => pod[p] = reaper.node

(* Steps in which no machine restarts, no Node of a booted machine appears *)
(* or loses its cordon, no pod comes to the node under teardown, and the   *)
(* reaper does not go on.                                                  *)
LEMMA CalmStep ==
  ASSUME TypeInv, DrainInv,
         \A n \in Names : /\ instance[n] \in {"joined", "terminated"} =>
                               instance'[n] \in {"joined", "terminated"}
                          /\ node'[n] # {} =>
                               instance'[n] \in {"joined", "terminated"}
                          /\ instance[n] \in {"joined", "terminated"} =>
                               /\ node[n] = {} => node'[n] = {}
                               /\ "cordoned" \in node[n] =>
                                    node'[n] = {} \/ "cordoned" \in node'[n],
         NoneComes,
         reaper' = reaper \/ reaper'.pc = "idle"
  PROVE  DrainInv'
<1>1. reaper.pc # "idle" => reaper.node \in Names
  BY DEF TypeInv, WorkersBusy
<1>2. NodesBooted'
  BY DEF NodesBooted
<1>3. CASE reaper'.pc = "idle"
  BY <1>2, <1>3 DEF DrainInv, VictimBooted, VictimCordoned, DrainedBeforeTerminate
<1>4. CASE reaper' = reaper /\ reaper.pc # "idle"
  <2>1. VictimBooted'
    BY <1>1, <1>4 DEF DrainInv, VictimBooted
  <2>2. VictimCordoned'
    BY <1>1, <1>4 DEF DrainInv, VictimBooted, VictimCordoned
  <2>3. DrainedBeforeTerminate'
    BY <1>4 DEF DrainInv, DrainedBeforeTerminate, PodsOn, NoneComes
  <2> QED BY <1>2, <2>1, <2>2, <2>3 DEF DrainInv
<1> QED BY <1>3, <1>4

(* The machines, the scheduler and the workload: a cordoned Node gets no   *)
(* pod.                                                                    *)
LEMMA ClusterDrains == TypeInv /\ DrainInv /\ ClusterStep => DrainInv'
<1> SUFFICES ASSUME TypeInv, DrainInv, ClusterStep PROVE DrainInv'
  OBVIOUS
<1> USE DEF poolVars, cloudVars, podVars
<1>1. /\ reaper' = reaper
      /\ reaper.pc # "idle" => reaper.node \in Names
  BY DEF ClusterStep, workers, TypeInv, WorkersBusy
<1>2. /\ instance \in [Names -> {"none", "booting", "joined", "terminated"}]
      /\ node \in [Names -> SUBSET NodeFlags]
      /\ pod \in [Pods -> {"unseen", "unschedulable", "gone"} \cup Names]
  BY DEF TypeInv, TypeOK, ClusterTypeOK
<1>3. NodesBooted /\ VictimBooted /\ VictimCordoned
  BY DEF DrainInv
<1>4. CASE UNCHANGED <<instance, node, pod>>
  BY <1>1, <1>3, <1>4, CalmStep DEF NodesBooted, NoneComes
<1>5. ASSUME NEW p \in Pods, PodArrives(p) \/ PodLeaves(p)
      PROVE  DrainInv'
  <2>1. NoneComes
    BY <1>1, <1>2, <1>5, NamesAssumption DEF PodArrives, PodLeaves, NoneComes
  <2>2. UNCHANGED <<instance, node>>
    BY <1>5 DEF PodArrives, PodLeaves
  <2> QED BY <1>1, <1>3, <2>1, <2>2, CalmStep DEF NodesBooted
<1>6. ASSUME NEW p \in Pods, NEW n \in Names, Bind(p, n)
      PROVE  DrainInv'
  <2>1. /\ "ready" \in node[n] /\ "cordoned" \notin node[n]
        /\ pod' = [pod EXCEPT ![p] = n] /\ UNCHANGED <<instance, node>>
    BY <1>6 DEF Bind
  <2>2. CASE reaper.pc # "idle" /\ reaper.node = n
    <3>1. reaper.pc = "cordon"
      BY <1>3, <2>1, <2>2 DEF VictimCordoned
    <3> QED BY <1>1, <1>3, <2>1, <3>1
            DEF DrainInv, NodesBooted, VictimBooted, VictimCordoned, DrainedBeforeTerminate
  <2>3. CASE reaper.pc # "idle" => reaper.node # n
    <3>1. NoneComes
      BY <1>1, <1>2, <2>1, <2>3 DEF NoneComes
    <3> QED BY <1>1, <1>3, <2>1, <3>1, CalmStep DEF NodesBooted
  <2> QED BY <2>2, <2>3
<1>7. ASSUME NEW n \in Names, Register(n) \/ BecomeReady(n) \/ Vanish(n) \/ LoseReady(n)
      PROVE  DrainInv'
  <2>1. NoneComes
    BY <1>1, <1>7 DEF Register, BecomeReady, Vanish, LoseReady, NoneComes
  <2>2. CASE Register(n)
    BY <1>1, <1>2, <1>3, <2>1, <2>2, CalmStep DEF Register, NodesBooted
  <2>3. CASE BecomeReady(n)
    BY <1>1, <1>2, <1>3, <2>1, <2>3, CalmStep DEF BecomeReady, NodesBooted
  <2>4. CASE Vanish(n)
    BY <1>1, <1>2, <1>3, <2>1, <2>4, CalmStep DEF Vanish, TerminateNode, NodesBooted
  <2>5. CASE LoseReady(n)
    BY <1>1, <1>2, <1>3, <2>1, <2>5, CalmStep DEF LoseReady, NodesBooted
  <2> QED BY <1>7, <2>2, <2>3, <2>4, <2>5
<1> QED
  BY <1>4, <1>5, <1>6, <1>7
     DEF ClusterStep, ClusterNext, SyncCache, PodSettles, Tick, Cool

(* The other workers may terminate the machine or delete its Node in the   *)
(* middle of the teardown, but they neither uncordon nor recreate it.      *)
LEMMA OthersDrain ==
  TypeInv /\ DrainInv /\ (ProvisionerStep \/ NodeReadyStep \/ OrphanStep \/ Restart)
    => DrainInv'
<1> SUFFICES ASSUME TypeInv, DrainInv,
                    ProvisionerStep \/ NodeReadyStep \/ OrphanStep \/ Restart
             PROVE  DrainInv'
  OBVIOUS
<1> USE DEF poolVars, cloudVars, podVars
<1>1. /\ instance \in [Names -> {"none", "booting", "joined", "terminated"}]
      /\ node \in [Names -> SUBSET NodeFlags]
  BY DEF TypeInv, TypeOK, ClusterTypeOK
<1>2. NodesBooted
  BY DEF DrainInv
<1>3. pod' = pod => NoneComes
  BY DEF NoneComes
<1>4. CASE Restart
  BY <1>2, <1>3, <1>4, CalmStep DEF Restart, ReaperIdle, NodesBooted
<1>5. CASE ProvisionerStep
  <2>1. reaper' = reaper /\ pod' = pod /\ node' = node
    BY <1>5 DEF ProvisionerStep, ProvNext, ProvSkip, ProvBegin, ProvLaunch, ProvLaunchLost,
                ProvLaunchFails, ProvPersist, ProvPersistFails, ProvAnnotate,
                ProvAnnotateFails
  <2>2. CASE instance' = instance
    BY <1>2, <1>3, <2>1, <2>2, CalmStep DEF NodesBooted
  <2>3. ASSUME NEW n \in Names, ProvLaunch(n) \/ ProvLaunchLost(n)
        PROVE  DrainInv'
    <3>1. instance[n] = "none" /\ instance' = [instance EXCEPT ![n] = "booting"]
      BY <2>3 DEF ProvLaunch, ProvLaunchLost
    <3> QED BY <1>1, <1>2, <1>3, <2>1, <3>1, CalmStep DEF NodesBooted
  <2> QED
    BY <1>5, <2>2, <2>3
       DEF ProvisionerStep, ProvNext, ProvSkip, ProvBegin, ProvLaunchFails, ProvPersist,
           ProvPersistFails, ProvAnnotate, ProvAnnotateFails
<1>6. CASE NodeReadyStep
  <2>1. reaper' = reaper /\ pod' = pod
    BY <1>6 DEF NodeReadyStep, NodeReadyNext, LabelNode, BootTimedOut, NodeReadyUpdate,
                NodeReadyUpdateFails
  <2>2. CASE UNCHANGED <<instance, node>>
    BY <1>2, <1>3, <2>1, <2>2, CalmStep DEF NodesBooted
  <2>3. ASSUME NEW n \in Names, LabelNode(n)
        PROVE  DrainInv'
    <3>1. PICK F \in SUBSET NodeFlags :
            /\ "ready" \in node[n] /\ node' = [node EXCEPT ![n] = node[n] \cup F]
            /\ instance' = instance
      <4>1. node = [node EXCEPT ![n] = node[n] \cup {}]
        BY <1>1
      <4> QED BY <1>1, <2>3, <4>1 DEF LabelNode, IsNodeReady, NodeFlags
    <3> QED BY <1>1, <1>2, <1>3, <2>1, <3>1, CalmStep DEF NodesBooted
  <2>4. ASSUME NEW n \in Names, BootTimedOut(n)
        PROVE  DrainInv'
    <3>1. /\ instance' = instance \/ instance' = [instance EXCEPT ![n] = "terminated"]
          /\ node' = node
      BY <2>4 DEF BootTimedOut, TerminateNode
    <3> QED BY <1>1, <1>2, <1>3, <2>1, <3>1, CalmStep DEF NodesBooted
  <2> QED
    BY <1>6, <2>2, <2>3, <2>4
       DEF NodeReadyStep, NodeReadyNext, NodeReadyUpdate, NodeReadyUpdateFails
<1>7. CASE OrphanStep
  <2>1. reaper' = reaper /\ pod' = pod
    BY <1>7 DEF OrphanStep, OrphanNext, OrphanListCloud, OrphanListNodes, OrphanSkip,
                OrphanTerminate, OrphanDelete, OrphanClean, OrphanCleanFails, clusterVars
  <2>2. CASE UNCHANGED <<instance, node>>
    BY <1>2, <1>3, <2>1, <2>2, CalmStep DEF NodesBooted
  <2>3. ASSUME NEW n \in Names, OrphanTerminate(n)
        PROVE  DrainInv'
    <3>1. /\ instance' = instance \/ instance' = [instance EXCEPT ![n] = "terminated"]
          /\ node' = node
      BY <2>3 DEF OrphanTerminate, TerminateNode
    <3> QED BY <1>1, <1>2, <1>3, <2>1, <3>1, CalmStep DEF NodesBooted
  <2>4. ASSUME NEW n \in Names, OrphanDelete(n)
        PROVE  DrainInv'
    <3>1. /\ node' = node \/ node' = [node EXCEPT ![n] = {}]
          /\ instance' = instance
      BY <2>4 DEF OrphanDelete, DeleteNode
    <3> QED BY <1>1, <1>2, <1>3, <2>1, <3>1, CalmStep DEF NodesBooted
  <2> QED
    BY <1>7, <2>2, <2>3, <2>4
       DEF OrphanStep, OrphanNext, OrphanListCloud, OrphanListNodes, OrphanSkip,
           OrphanClean, OrphanCleanFails, clusterVars
<1> QED BY <1>4, <1>5, <1>6, <1>7

(* The reaper: it begins on a Node, cordons it before it drains it, and    *)
(* drains it before it goes on to terminate the machine.                   *)
LEMMA ReaperDrains ==
  ASSUME DrainAllowed, TypeInv, DrainInv, ReaperStep
  PROVE  DrainInv'
<1> USE DEF poolVars, cloudVars, podVars
<1>1. /\ instance \in [Names -> {"none", "booting", "joined", "terminated"}]
      /\ node \in [Names -> SUBSET NodeFlags]
      /\ pod \in [Pods -> {"unseen", "unschedulable", "gone"} \cup Names]
      /\ ReaperTypeOK /\ (reaper.pc # "idle" => reaper.node \in Names)
  BY DEF TypeInv, TypeOK, ClusterTypeOK, WorkersBusy
<1>2. NodesBooted /\ VictimBooted /\ VictimCordoned /\ DrainedBeforeTerminate
  BY DEF DrainInv
<1>3. ASSUME NEW n \in Names, ReaperResetTimer(n) \/ ReaperStartTimer(n)
      PROVE  DrainInv'
  BY <1>2, <1>3, CalmStep
     DEF ReaperResetTimer, ReaperStartTimer, NodesBooted, NoneComes
<1>4. ASSUME NEW n \in Names, ReaperBegin(n)
      PROVE  DrainInv'
  BY <1>1, <1>2, <1>4
     DEF ReaperBegin, Reapable, Managed, DrainInv, NodesBooted, VictimBooted,
         VictimCordoned, DrainedBeforeTerminate
<1>5. CASE ReaperCordon
  <2>1. /\ node' = [node EXCEPT ![reaper.node] = CordonNode(@)]
        /\ reaper' = [reaper EXCEPT !.pc = "markDraining"]
        /\ reaper.pc = "cordon" /\ UNCHANGED <<instance, pod>>
    BY <1>5 DEF ReaperCordon, Fault, DrainAllowed
  <2>2. reaper'.pc = "markDraining" /\ reaper'.node = reaper.node
    BY <1>1, <2>1 DEF ReaperTypeOK
  <2> QED BY <1>1, <1>2, <2>1, <2>2
          DEF CordonNode, DrainInv, NodesBooted, VictimBooted, VictimCordoned,
              DrainedBeforeTerminate
(* Steps after the cordon that change nothing but the status. *)
<1>6. ASSUME UNCHANGED <<instance, node, pod>>, reaper.pc \notin {"idle", "cordon"},
             \/ reaper'.pc = "idle"
             \/ /\ reaper'.node = reaper.node /\ reaper'.pc \notin {"idle", "cordon"}
                /\ reaper'.pc \in {"markTerminating", "terminate", "delete"} =>
                     PodsOn(reaper.node) = {}
      PROVE  DrainInv'
  BY <1>1, <1>2, <1>6
     DEF DrainInv, NodesBooted, VictimBooted, VictimCordoned, DrainedBeforeTerminate, PodsOn
<1>7. CASE ReaperMarkDraining \/ ReaperMarkTerminating \/ ReaperRemove \/ ReaperUpdateFails
  BY <1>1, <1>2, <1>6, <1>7
     DEF ReaperMarkDraining, ReaperMarkTerminating, ReaperMark, ReaperRemove,
         ReaperUpdateFails, ReaperIdle, ReaperTypeOK, DrainedBeforeTerminate
<1>8. CASE ReaperDrain
  <2>1. /\ pod' = [p \in Pods |-> IF p \in PodsOn(reaper.node) THEN "gone" ELSE pod[p]]
        /\ reaper' = [reaper EXCEPT !.pc = "markTerminating"]
        /\ reaper.pc = "drain" /\ UNCHANGED <<instance, node>>
    BY <1>8 DEF ReaperDrain, DrainNode, Evict, Fault, DrainAllowed
  <2>2. reaper'.pc = "markTerminating" /\ reaper'.node = reaper.node
    BY <1>1, <2>1 DEF ReaperTypeOK
  <2>3. \A p \in Pods : pod'[p] # reaper.node
    BY <1>1, <2>1, NamesAssumption DEF PodsOn
  <2> QED BY <1>1, <1>2, <2>1, <2>2, <2>3
          DEF DrainInv, NodesBooted, VictimBooted, VictimCordoned, DrainedBeforeTerminate,
              PodsOn
<1>9. CASE ReaperTerminate \/ ReaperDelete
  <2>1. /\ instance' \in {instance, [instance EXCEPT ![reaper.node] = "terminated"]}
        /\ node' \in {node, [node EXCEPT ![reaper.node] = {}]}
        /\ pod' = pod /\ reaper.pc \in {"terminate", "delete"}
        /\ \/ reaper'.pc = "idle"
           \/ reaper'.pc \in {"delete", "remove"} /\ reaper'.node = reaper.node
    BY <1>1, <1>9 DEF ReaperTerminate, TerminateNode, ReaperDelete, DeleteNode, ReaperIdle,
                      ReaperTypeOK
  <2>2. NodesBooted'
    BY <1>1, <1>2, <2>1 DEF NodesBooted
  <2>3. VictimBooted' /\ VictimCordoned'
    BY <1>1, <1>2, <2>1 DEF VictimBooted, VictimCordoned
  <2>4. DrainedBeforeTerminate'
    BY <1>2, <2>1 DEF DrainedBeforeTerminate, PodsOn
  <2> QED BY <2>2, <2>3, <2>4 DEF DrainInv
<1> QED
  BY <1>3, <1>4, <1>5, <1>7, <1>8, <1>9 DEF ReaperStep, ReaperNext

(* With a role that may evict, and as long as cordon and drain do not      *)
(* fail, the reaper terminates a machine only when no pod is on it: the    *)
(* scheduler cannot get a pod in between the drain and the termination,    *)
(* whatever else fails and however the other workers interfere.            *)
THEOREM NodesDrained == DrainAllowed => (Spec => []DrainedBeforeTerminate)
<1> SUFFICES ASSUME DrainAllowed PROVE Spec => []DrainedBeforeTerminate
  OBVIOUS
<1>1. Init => DrainInv
  BY DEF Init, ClusterInit, ReaperInit, ReaperIdle, DrainInv, NodesBooted, VictimBooted,
         VictimCordoned, DrainedBeforeTerminate
<1>2. TypeInv /\ DrainInv /\ [Next]_vars => DrainInv'
  <2>1. TypeInv /\ DrainInv /\ UNCHANGED vars => DrainInv'
    BY CalmStep DEF vars, workers, clusterVars, cloudVars, podVars, DrainInv, NodesBooted,
                    NoneComes
  <2> QED BY <2>1, ClusterDrains, OthersDrain, ReaperDrains DEF Next
<1>3. IInv => TypeInv
  BY InvIsSafe
<1>4. DrainInv => DrainedBeforeTerminate
  BY DEF DrainInv
<1> QED BY <1>1, <1>2, <1>3, <1>4, Invariance, PTL DEF Spec
=============================================================================
