----------------------------- MODULE LeakProofs -----------------------------
(***************************************************************************)
(* Proof that an instance no entry accounts for is one the orphan detector *)
(* can see, for every number of nodes and pods and whatever restarts, lost *)
(* answers and refused writes leave behind.                                *)
(***************************************************************************)
EXTENDS TeardownProofs

(* The cache knows only names that were launched. *)
CachedLaunched == \A n \in Names : cache.st[n] # "Absent" => instance[n] # "none"

(* A running machine without an entry is not labelled as managed. *)
NoEntryUnmanaged ==
  \A n \in Names : pool.st[n] = "Absent" /\ Up(n) => ~ Managed(n)

(* A machine whose Node was deleted under it: there will be no other Node. *)
Stripped(n) == instance[n] = "joined" /\ node[n] = {}

(* Nor will it be on the word of an old copy: a running machine that still *)
(* has an entry in the cache, and none in the stored status, has no Node   *)
(* that could be labelled.                                                 *)
StaleStripped ==
  \A n \in Names :
    pool.st[n] = "Absent" /\ cache.st[n] # "Absent" /\ Up(n) => Stripped(n)

(* Whoever is about to strike off an entry has terminated its machine, or  *)
(* deleted its Node.                                                       *)
ExpireEnds == nodeready.pc = "expire" => instance[nodeready.node] = "terminated"
ReaperEnds == reaper.pc \in {"delete", "remove"} => instance[reaper.node] = "terminated"
OrphanEnds ==
  /\ \A n \in orphan.nodes : instance[n] \in {"joined", "terminated"}
  /\ orphan.pc = "clean" =>
       instance[orphan.name] = "terminated" \/ Stripped(orphan.name)

NamesInv  == NodesBooted /\ CachedLaunched /\ NoEntryUnmanaged /\ StaleStripped
StrikeInv == ExpireEnds /\ ReaperEnds /\ OrphanEnds
LeakInv   == NamesInv /\ StrikeInv

(* The machine config does not give Nodes the label, and no call that      *)
(* terminates an instance or deletes a Node fails.                         *)
CleanupSucceeds == ~ TalosLabels /\ FaultKinds \cap {"terminate", "delete"} = {}
----------------------------------------------------------------------------
(* No machine comes back, no Node appears on one that has booted before,   *)
(* and a label only where there is an entry or the machine is gone.        *)
Onward ==
  \A n \in Names :
    /\ instance[n] # "none" => instance'[n] # "none"
    /\ instance[n] \in {"joined", "terminated"} => instance'[n] \in {"joined", "terminated"}
    /\ instance[n] = "terminated" => instance'[n] = "terminated"
    /\ node'[n] # {} => instance'[n] \in {"joined", "terminated"}
    /\ Stripped(n) => node'[n] = {}
    /\ Managed(n)' => Managed(n) \/ pool.st[n] # "Absent" \/ ~ Up(n)'

(* Nothing that happens to machines and Nodes in this way hides a leak. *)
LEMMA OnwardNames ==
  ASSUME TypeInv, NamesInv, Onward, UNCHANGED <<pool, cache>>
  PROVE  NamesInv'
<1>1. instance \in [Names -> {"none", "booting", "joined", "terminated"}]
  BY DEF TypeInv, TypeOK, ClusterTypeOK
<1>2. NodesBooted'
  BY DEF Onward, NodesBooted
<1>3. CachedLaunched'
  BY DEF Onward, NamesInv, CachedLaunched
<1>4. ASSUME NEW n \in Names, Up(n)', ~ Up(n)
      PROVE  instance[n] = "none" /\ node[n] = {}
  BY <1>1, <1>4 DEF Onward, NamesInv, NodesBooted, Up
<1>5. NoEntryUnmanaged'
  BY <1>4 DEF Onward, NamesInv, NoEntryUnmanaged, Managed
<1>6. StaleStripped'
  BY <1>4 DEF Onward, NamesInv, CachedLaunched, StaleStripped, Stripped, Up
<1> QED BY <1>2, <1>3, <1>5, <1>6 DEF NamesInv

(* A worker that does not go on has terminated or deleted what it had. *)
LEMMA OnwardStrikes ==
  ASSUME TypeInv, Onward
  PROVE  /\ ExpireEnds /\ (nodeready' = nodeready \/ nodeready'.pc # "expire") => ExpireEnds'
         /\ ReaperEnds /\ (reaper' = reaper \/ reaper'.pc \notin {"delete", "remove"})
              => ReaperEnds'
         /\ OrphanEnds /\ (\/ orphan' = orphan
                           \/ orphan'.nodes \subseteq orphan.nodes /\ orphan'.pc # "clean")
              => OrphanEnds'
<1>1. /\ nodeready.pc = "expire" => nodeready.node \in Names
      /\ reaper.pc \in {"delete", "remove"} => reaper.node \in Names
      /\ orphan.nodes \in SUBSET Names /\ (orphan.pc = "clean" => orphan.name \in Names)
  BY DEF TypeInv, TypeOK, OrphanTypeOK, WorkersBusy
<1>2. ExpireEnds /\ (nodeready' = nodeready \/ nodeready'.pc # "expire") => ExpireEnds'
  BY <1>1 DEF Onward, ExpireEnds
<1>3. ReaperEnds /\ (reaper' = reaper \/ reaper'.pc \notin {"delete", "remove"}) => ReaperEnds'
  BY <1>1 DEF Onward, ReaperEnds
<1>4. ASSUME OrphanEnds,
             \/ orphan' = orphan
             \/ orphan'.nodes \subseteq orphan.nodes /\ orphan'.pc # "clean"
      PROVE  OrphanEnds'
  BY <1>1, <1>4 DEF Onward, OrphanEnds, Stripped
<1> QED BY <1>2, <1>3, <1>4

(* A status write strikes off only what is gone or has lost its Node. *)
LEMMA WriteNames ==
  ASSUME TypeInv, NamesInv, UNCHANGED <<cache, instance, node>>,
         \A n \in Names : pool'.st[n] = "Absent" =>
           pool.st[n] = "Absent" \/ instance[n] = "terminated" \/ Stripped(n)
  PROVE  NamesInv' /\ Onward
<1>1. NodesBooted' /\ CachedLaunched'
  BY DEF NamesInv, NodesBooted, CachedLaunched
<1>2. NoEntryUnmanaged'
  BY DEF NamesInv, NoEntryUnmanaged, Up, Managed, Stripped
<1>3. StaleStripped'
  BY DEF NamesInv, StaleStripped, Up, Stripped
<1>4. Onward
  BY DEF Onward, NamesInv, NodesBooted, Managed, Stripped
<1> QED BY <1>1, <1>2, <1>3, <1>4 DEF NamesInv

(* The informer catches up. *)
LEMMA SyncNames ==
  ASSUME IInv, NamesInv, cache' = pool, UNCHANGED <<pool, instance, node>>
  PROVE  NamesInv' /\ Onward
<1>1. \A n \in Names : pool.st[n] # "Absent" => instance[n] # "none"
  BY DEF IInv, NamesApart
<1>2. NodesBooted' /\ CachedLaunched' /\ NoEntryUnmanaged' /\ StaleStripped'
  BY <1>1 DEF NamesInv, NodesBooted, CachedLaunched, NoEntryUnmanaged, StaleStripped, Up, Managed
<1>3. Onward
  BY DEF Onward, NamesInv, NodesBooted, Managed, Stripped
<1> QED BY <1>2, <1>3 DEF NamesInv

(* The rest of the world labels no Node. *)
LEMMA ClusterLeaks ==
  ASSUME CleanupSucceeds, IInv, LeakInv, ClusterStep
  PROVE  LeakInv'
<1> USE DEF poolVars, cloudVars, podVars
<1>1. TypeInv /\ NamesInv /\ StrikeInv
  BY InvIsSafe DEF LeakInv
<1>2. UNCHANGED <<nodeready, reaper, orphan>>
  BY DEF ClusterStep, workers
<1>3. NamesInv' /\ Onward => LeakInv'
  BY <1>1, <1>2, OnwardStrikes DEF LeakInv, StrikeInv
<1>4. /\ instance \in [Names -> {"none", "booting", "joined", "terminated"}]
      /\ node \in [Names -> SUBSET NodeFlags]
  BY <1>1 DEF TypeInv, TypeOK, ClusterTypeOK
<1>5. NodesBooted
  BY <1>1 DEF NamesInv
<1>6. CASE SyncCache
  BY <1>1, <1>3, <1>6, SyncNames DEF SyncCache
<1>7. CASE UNCHANGED <<pool, cache, instance, node>>
  BY <1>1, <1>3, <1>7, WriteNames
<1>8. ASSUME NEW n \in Names, Register(n) \/ BecomeReady(n) \/ Vanish(n) \/ LoseReady(n)
      PROVE  LeakInv'
  <2>1. UNCHANGED <<pool, cache>>
    BY <1>8 DEF Register, BecomeReady, Vanish, LoseReady
  <2>2. Onward
    <3>1. CASE Register(n)
      BY <1>4, <1>5, <3>1 DEF Register, CleanupSucceeds, Onward, NodesBooted, Stripped, Managed
    <3>2. CASE BecomeReady(n)
      BY <1>4, <1>5, <3>2 DEF BecomeReady, Onward, NodesBooted, Stripped, Managed
    <3>3. CASE Vanish(n)
      BY <1>4, <1>5, <3>3 DEF Vanish, TerminateNode, Onward, NodesBooted, Stripped, Managed
    <3>4. CASE LoseReady(n)
      BY <1>4, <1>5, <3>4 DEF LoseReady, Onward, NodesBooted, Stripped, Managed
    <3> QED BY <1>8, <3>1, <3>2, <3>3, <3>4
  <2> QED BY <1>1, <1>3, <2>1, <2>2, OnwardNames
<1> QED
  BY <1>6, <1>7, <1>8
     DEF ClusterStep, ClusterNext, PodArrives, PodSettles, PodLeaves, Bind, Tick, Cool

(* Launches have no Node yet, and entries are only added. *)
LEMMA ProvisionerLeaks ==
  ASSUME IInv, LeakInv, ProvisionerStep
  PROVE  LeakInv'
<1> USE DEF poolVars, cloudVars, podVars
<1>1. TypeInv /\ NamesInv /\ StrikeInv
  BY InvIsSafe DEF LeakInv
<1>2. UNCHANGED <<nodeready, reaper, orphan>>
  BY DEF ProvisionerStep
<1>3. NamesInv' /\ Onward => LeakInv'
  BY <1>1, <1>2, OnwardStrikes DEF LeakInv, StrikeInv
<1>4. /\ instance \in [Names -> {"none", "booting", "joined", "terminated"}]
      /\ pool \in PoolStatus
  BY <1>1 DEF TypeInv, TypeOK, ClusterTypeOK
<1>5. CASE UNCHANGED <<pool, cache, instance, node>>
  BY <1>1, <1>3, <1>5, WriteNames
<1>6. ASSUME NEW n \in Names, ProvLaunch(n) \/ ProvLaunchLost(n)
      PROVE  LeakInv'
  <2>1. /\ instance[n] = "none" /\ instance' = [instance EXCEPT ![n] = "booting"]
        /\ UNCHANGED <<pool, cache, node>>
    BY <1>6 DEF ProvLaunch, ProvLaunchLost
  <2>2. Onward
    BY <1>1, <1>4, <2>1 DEF Onward, NamesInv, NodesBooted, Stripped, Managed
  <2> QED BY <1>1, <1>3, <2>1, <2>2, OnwardNames
<1>7. CASE ProvPersist
  <2>1. /\ pool' = WithLaunched(pool, prov.launched)
        /\ UNCHANGED <<cache, instance, node>>
    BY <1>7 DEF ProvPersist, StatusUpdate
  <2>2. \A n \in Names : pool'.st[n] = "Absent" => pool.st[n] = "Absent"
    BY <1>4, <2>1 DEF WithLaunched, PoolStatus
  <2> QED BY <1>1, <1>3, <2>1, <2>2, WriteNames
<1> QED
  BY <1>5, <1>6, <1>7
     DEF ProvisionerStep, ProvNext, ProvSkip, ProvBegin, ProvLaunchFails,
         ProvPersistFails, ProvAnnotate, ProvAnnotateFails

(* A Node is labelled on the word of the cache, which may be old: then its *)
(* entry was struck off, and with it went the machine or the Node.         *)
LEMMA NodeReadyLeaks ==
  ASSUME CleanupSucceeds, IInv, LeakInv, NodeReadyStep
  PROVE  LeakInv'
<1> USE DEF poolVars, cloudVars, podVars
<1>1. TypeInv /\ NamesInv /\ StrikeInv
  BY InvIsSafe DEF LeakInv
<1>2. UNCHANGED <<reaper, orphan>>
  BY DEF NodeReadyStep
<1>3. NamesInv' /\ Onward /\ ExpireEnds' => LeakInv'
  BY <1>1, <1>2, OnwardStrikes DEF LeakInv, StrikeInv
<1>4. /\ instance \in [Names -> {"none", "booting", "joined", "terminated"}]
      /\ node \in [Names -> SUBSET NodeFlags]
      /\ pool \in PoolStatus
      /\ nodeready.pc # "idle" => nodeready.node \in Names
  BY <1>1 DEF TypeInv, TypeOK, ClusterTypeOK, WorkersBusy
<1>5. ASSUME NEW n \in Names, LabelNode(n)
      PROVE  LeakInv'
  <2>1. PICK F \in SUBSET NodeFlags :
          /\ "ready" \in node[n] /\ node' = [node EXCEPT ![n] = node[n] \cup F]
          /\ cache.st[n] = "Pending" /\ UNCHANGED <<pool, cache, instance>>
          /\ nodeready'.pc = "promote"
    <3>1. node = [node EXCEPT ![n] = node[n] \cup {}]
      BY <1>4
    <3> QED BY <1>4, <1>5, <3>1 DEF LabelNode, IsPending, IsNodeReady, NodeFlags
  <2>2. pool.st[n] # "Absent" \/ ~ Up(n)
    BY <1>1, <2>1 DEF NamesInv, StaleStripped, Stripped
  <2>3. Onward
    BY <1>1, <1>4, <2>1, <2>2 DEF Onward, NamesInv, NodesBooted, Stripped, Managed, Up
  <2>4. ExpireEnds'
    BY <2>1 DEF ExpireEnds
  <2> QED BY <1>1, <1>3, <2>1, <2>3, <2>4, OnwardNames
<1>6. ASSUME NEW n \in Names, BootTimedOut(n)
      PROVE  LeakInv'
  <2>1. /\ instance' = [instance EXCEPT ![n] = "terminated"]
        /\ UNCHANGED <<pool, cache, node>>
        /\ nodeready' = [pc |-> "expire", node |-> n]
    BY <1>6 DEF BootTimedOut, TerminateNode, Fault, CleanupSucceeds
  <2>2. Onward
    BY <1>1, <1>4, <2>1 DEF Onward, NamesInv, NodesBooted, Stripped, Managed
  <2>3. ExpireEnds'
    BY <1>4, <2>1 DEF ExpireEnds
  <2> QED BY <1>1, <1>3, <2>1, <2>2, <2>3, OnwardNames
<1>7. CASE NodeReadyUpdate
  <2>1. /\ nodeready' = NodeReadyIdle /\ UNCHANGED <<cache, instance, node>>
        /\ nodeready.pc # "idle"
        /\ \/ pool' = Promote(pool, nodeready.node)
           \/ nodeready.pc = "expire" /\ pool' = DropPending(pool, nodeready.node)
    BY <1>7 DEF NodeReadyUpdate, StatusUpdate
  <2>2. \A n \in Names : pool'.st[n] = "Absent" =>
          pool.st[n] = "Absent" \/ instance[n] = "terminated"
    <3>1. CASE pool' = Promote(pool, nodeready.node)
      BY <1>4, <2>1, <3>1 DEF Promote, PoolStatus
    <3>2. CASE nodeready.pc = "expire" /\ pool' = DropPending(pool, nodeready.node)
      <4>1. instance[nodeready.node] = "terminated"
        BY <1>1, <3>2 DEF StrikeInv, ExpireEnds
      <4>2. pool'.st = [pool.st EXCEPT ![nodeready.node] = "Absent"]
        BY <1>4, <3>2 DEF DropPending, WithoutEntry, PoolStatus
      <4> QED BY <1>4, <2>1, <4>1, <4>2 DEF PoolStatus
    <3> QED BY <2>1, <3>1, <3>2
  <2>3. ExpireEnds'
    BY <2>1 DEF ExpireEnds, NodeReadyIdle
  <2> QED BY <1>1, <1>3, <2>1, <2>2, <2>3, WriteNames
<1>8. CASE NodeReadyUpdateFails
  <2>1. UNCHANGED <<pool, cache, instance, node>> /\ nodeready' = NodeReadyIdle
    BY <1>8 DEF NodeReadyUpdateFails
  <2>2. ExpireEnds'
    BY <2>1 DEF ExpireEnds, NodeReadyIdle
  <2> QED BY <1>1, <1>3, <2>1, <2>2, WriteNames
<1> QED BY <1>5, <1>6, <1>7, <1>8 DEF NodeReadyStep, NodeReadyNext

(* The reaper removes the entry of a machine that it terminated. *)
LEMMA ReaperLeaks ==
  ASSUME CleanupSucceeds, IInv, LeakInv, ReaperStep
  PROVE  LeakInv'
<1> USE DEF poolVars, cloudVars, podVars
<1>1. TypeInv /\ NamesInv /\ StrikeInv
  BY InvIsSafe DEF LeakInv
<1>2. UNCHANGED <<nodeready, orphan>>
  BY DEF ReaperStep
<1>3. NamesInv' /\ Onward /\ ReaperEnds' => LeakInv'
  BY <1>1, <1>2, OnwardStrikes DEF LeakInv, StrikeInv
<1>4. /\ instance \in [Names -> {"none", "booting", "joined", "terminated"}]
      /\ node \in [Names -> SUBSET NodeFlags]
      /\ pool \in PoolStatus /\ ReaperTypeOK
      /\ reaper.pc # "idle" => reaper.node \in Names
  BY <1>1 DEF TypeInv, TypeOK, ClusterTypeOK, WorkersBusy
<1>5. Fresh("cache") => cache = pool
  BY DEF IInv, CacheCurrent
<1>6. ASSUME NEW n \in Names, ReaperResetTimer(n) \/ ReaperStartTimer(n) \/ ReaperBegin(n)
      PROVE  LeakInv'
  <2>1. /\ UNCHANGED <<cache, instance, node>>
        /\ reaper' = reaper \/ reaper'.pc = "cordon"
        /\ \A m \in Names : pool'.st[m] = "Absent" => pool.st[m] = "Absent"
    BY <1>4, <1>5, <1>6
       DEF ReaperResetTimer, ReaperStartTimer, ReaperBegin, StatusUpdate, PoolStatus
  <2>2. NamesInv' /\ Onward
    BY <1>1, <2>1, WriteNames
  <2> QED BY <1>1, <1>3, <2>1, <2>2, OnwardStrikes DEF StrikeInv
<1>7. CASE ReaperCordon \/ ReaperDrain
  <2>1. /\ UNCHANGED <<pool, cache, instance>>
        /\ reaper'.pc \in {"markDraining", "markTerminating"} /\ reaper.pc # "idle"
        /\ node' \in {node, [node EXCEPT ![reaper.node] = CordonNode(@)]}
    BY <1>4, <1>7 DEF ReaperCordon, ReaperDrain, ReaperTypeOK
  <2>2. Onward
    BY <1>1, <1>4, <2>1 DEF Onward, NamesInv, NodesBooted, Stripped, Managed, CordonNode
  <2>3. NamesInv'
    BY <1>1, <2>1, <2>2, OnwardNames
  <2> QED BY <1>1, <1>3, <2>1, <2>2, <2>3 DEF ReaperEnds
<1>8. CASE ReaperMarkDraining \/ ReaperMarkTerminating
  <2>1. /\ UNCHANGED <<cache, instance, node>>
        /\ reaper'.pc \in {"drain", "terminate"}
        /\ \A n \in Names : pool'.st[n] = "Absent" => pool.st[n] = "Absent"
    BY <1>4, <1>8
       DEF ReaperMarkDraining, ReaperMarkTerminating, ReaperMark, StatusUpdate, PoolStatus,
           ReaperTypeOK
  <2>2. NamesInv' /\ Onward
    BY <1>1, <2>1, WriteNames
  <2> QED BY <1>3, <2>1, <2>2 DEF ReaperEnds
<1>9. CASE ReaperTerminate \/ ReaperDelete
  <2>1. /\ UNCHANGED <<pool, cache>> /\ reaper.pc # "idle"
        /\ instance' \in {instance, [instance EXCEPT ![reaper.node] = "terminated"]}
        /\ node' \in {node, [node EXCEPT ![reaper.node] = {}]}
        /\ reaper'.node = reaper.node
        /\ instance'[reaper.node] = "terminated"
    BY <1>1, <1>4, <1>9
       DEF ReaperTerminate, ReaperDelete, TerminateNode, DeleteNode, Fault, CleanupSucceeds,
           StrikeInv, ReaperEnds, ReaperTypeOK
  <2>2. Onward
    BY <1>1, <1>4, <2>1 DEF Onward, NamesInv, NodesBooted, Stripped, Managed
  <2>3. NamesInv'
    BY <1>1, <2>1, <2>2, OnwardNames
  <2> QED BY <1>3, <2>1, <2>2, <2>3 DEF ReaperEnds
<1>10. CASE ReaperRemove
  <2>1. /\ UNCHANGED <<cache, instance, node>> /\ reaper'.pc = "idle"
        /\ reaper.pc = "remove" /\ pool' = DropReaped(pool, reaper.node)
    BY <1>10 DEF ReaperRemove, StatusUpdate, ReaperIdle
  <2>2. \A n \in Names : pool'.st[n] = "Absent" =>
          pool.st[n] = "Absent" \/ instance[n] = "terminated"
    BY <1>1, <1>4, <2>1 DEF DropReaped, WithoutEntry, PoolStatus, StrikeInv, ReaperEnds
  <2>3. NamesInv' /\ Onward
    BY <1>1, <2>1, <2>2, WriteNames
  <2> QED BY <1>3, <2>1, <2>3 DEF ReaperEnds
<1>11. CASE ReaperUpdateFails
  <2>1. UNCHANGED <<pool, cache, instance, node>> /\ reaper'.pc = "idle"
    BY <1>11 DEF ReaperUpdateFails, ReaperIdle
  <2>2. NamesInv' /\ Onward
    BY <1>1, <2>1, WriteNames
  <2> QED BY <1>3, <2>1, <2>2 DEF ReaperEnds
<1> QED
  BY <1>6, <1>7, <1>8, <1>9, <1>10, <1>11 DEF ReaperStep, ReaperNext

(* The orphan detector judges by listings of different age; what it has    *)
(* not terminated has lost its Node before its entry goes.                 *)
LEMMA OrphanLeaks ==
  ASSUME CleanupSucceeds, IInv, LeakInv, OrphanStep
  PROVE  LeakInv'
<1> USE DEF poolVars, cloudVars, podVars
<1>1. TypeInv /\ NamesInv /\ StrikeInv
  BY InvIsSafe DEF LeakInv
<1>2. UNCHANGED <<nodeready, reaper>>
  BY DEF OrphanStep
<1>3. NamesInv' /\ Onward /\ OrphanEnds' => LeakInv'
  BY <1>1, <1>2, OnwardStrikes DEF LeakInv, StrikeInv
<1>4. /\ instance \in [Names -> {"none", "booting", "joined", "terminated"}]
      /\ node \in [Names -> SUBSET NodeFlags]
      /\ pool \in PoolStatus /\ OrphanTypeOK
      /\ orphan.pc = "clean" => orphan.name \in Names
  BY <1>1 DEF TypeInv, TypeOK, ClusterTypeOK, WorkersBusy
<1>5. Fresh("cache") => cache = pool
  BY DEF IInv, CacheCurrent
<1>6. CASE OrphanListNodes
  <2>1. UNCHANGED <<pool, cache, instance, node>>
    BY <1>6 DEF OrphanListNodes, clusterVars
  <2>2. orphan'.pc = "sweep" /\ \A n \in orphan'.nodes : n \in Names /\ Managed(n)
    BY <1>4, <1>6 DEF OrphanListNodes, OrphanTypeOK
  <2>3. OrphanEnds'
    BY <1>1, <2>1, <2>2 DEF OrphanEnds, NamesInv, NodesBooted, Managed
  <2> QED BY <1>1, <1>3, <2>1, <2>3, WriteNames
<1>7. ASSUME UNCHANGED <<pool, cache, instance, node>>,
             orphan'.nodes \subseteq orphan.nodes, orphan'.pc # "clean"
      PROVE  LeakInv'
  <2>1. NamesInv' /\ Onward
    BY <1>1, <1>7, WriteNames
  <2> QED BY <1>1, <1>3, <1>7, <2>1, OnwardStrikes DEF StrikeInv
<1>8. CASE OrphanListCloud \/ OrphanCleanFails \/ \E n \in Names : OrphanSkip(n)
  BY <1>4, <1>7, <1>8
     DEF OrphanListCloud, OrphanCleanFails, OrphanSkip, OrphanTypeOK, clusterVars
<1>9. ASSUME NEW n \in Names, OrphanTerminate(n)
      PROVE  LeakInv'
  <2>1. /\ instance' = [instance EXCEPT ![n] = "terminated"]
        /\ UNCHANGED <<pool, cache, node>>
        /\ orphan'.name = n /\ orphan'.nodes = orphan.nodes
    BY <1>4, <1>9 DEF OrphanTerminate, TerminateNode, Fault, CleanupSucceeds, OrphanTypeOK
  <2>2. Onward
    BY <1>1, <1>4, <2>1 DEF Onward, NamesInv, NodesBooted, Stripped, Managed
  <2>3. OrphanEnds'
    BY <1>1, <1>4, <2>1 DEF OrphanEnds, StrikeInv, OrphanTypeOK
  <2> QED BY <1>1, <1>3, <2>1, <2>2, <2>3, OnwardNames
<1>10. ASSUME NEW n \in Names, OrphanDelete(n)
       PROVE  LeakInv'
  <2>1. /\ n \in orphan.nodes /\ node' = [node EXCEPT ![n] = {}]
        /\ UNCHANGED <<pool, cache, instance>>
        /\ orphan'.name = n /\ orphan'.nodes \subseteq orphan.nodes
    BY <1>4, <1>10 DEF OrphanDelete, DeleteNode, Fault, CleanupSucceeds, OrphanTypeOK
  <2>2. Onward
    BY <1>1, <1>4, <2>1 DEF Onward, NamesInv, NodesBooted, Stripped, Managed
  <2>3. OrphanEnds'
    BY <1>1, <1>4, <2>1 DEF OrphanEnds, StrikeInv, Stripped
  <2> QED BY <1>1, <1>3, <2>1, <2>2, <2>3, OnwardNames
<1>11. CASE OrphanClean
  <2>1. /\ UNCHANGED <<cache, instance, node>> /\ orphan.pc = "clean"
        /\ orphan'.pc = "sweep" /\ orphan'.nodes = orphan.nodes
        /\ pool' = DropOrphan(pool, orphan.name)
    BY <1>4, <1>5, <1>11 DEF OrphanClean, StatusUpdate, OrphanTypeOK
  <2>2. \A n \in Names : pool'.st[n] = "Absent" =>
          pool.st[n] = "Absent" \/ instance[n] = "terminated" \/ Stripped(n)
    BY <1>1, <1>4, <2>1 DEF DropOrphan, WithoutEntry, PoolStatus, StrikeInv, OrphanEnds
  <2>3. NamesInv' /\ Onward
    BY <1>1, <2>1, <2>2, WriteNames
  <2> QED BY <1>1, <1>3, <2>1, <2>3, OnwardStrikes DEF StrikeInv
<1> QED
  BY <1>6, <1>8, <1>9, <1>10, <1>11 DEF OrphanStep, OrphanNext

(* A restart forgets the work and takes the stored status over. *)
LEMMA RestartLeaks ==
  ASSUME IInv, LeakInv, Restart
  PROVE  LeakInv'
<1>1. TypeInv /\ NamesInv
  BY InvIsSafe DEF LeakInv
<1>2. /\ cache' = pool /\ UNCHANGED <<pool, instance, node>>
      /\ nodeready' = NodeReadyIdle /\ reaper' = ReaperIdle /\ orphan' = OrphanRest
  BY DEF Restart, cloudVars
<1>3. NamesInv'
  BY <1>1, <1>2, SyncNames
<1>4. ExpireEnds' /\ ReaperEnds' /\ OrphanEnds'
  BY <1>2 DEF ExpireEnds, ReaperEnds, OrphanEnds, NodeReadyIdle, ReaperIdle, OrphanRest
<1> QED BY <1>3, <1>4 DEF LeakInv, StrikeInv

(* Where machines do not label their Nodes themselves and no termination   *)
(* or deletion fails, a leaked instance never passes for a managed node,   *)
(* however it came to leak: the orphan detector will find it.              *)
THEOREM LeaksSeen == CleanupSucceeds => (Spec => []LeaksVisible)
<1> SUFFICES ASSUME CleanupSucceeds PROVE Spec => []LeaksVisible
  OBVIOUS
<1>1. Init => LeakInv
  BY DEF Init, ClusterInit, NodeReadyInit, NodeReadyIdle, ReaperInit, ReaperIdle, OrphanInit,
         OrphanRest, LeakInv, NamesInv, StrikeInv, NodesBooted, CachedLaunched,
         NoEntryUnmanaged, StaleStripped, ExpireEnds, ReaperEnds, OrphanEnds, Managed
<1>2. IInv /\ LeakInv /\ [Next]_vars => LeakInv'
  <2> SUFFICES ASSUME IInv, LeakInv, [Next]_vars PROVE LeakInv'
    OBVIOUS
  <2>1. CASE UNCHANGED vars
    <3>1. UNCHANGED <<pool, cache, instance, node, nodeready, reaper, orphan>>
      BY <2>1 DEF vars, workers, clusterVars, poolVars, cloudVars
    <3>2. TypeInv /\ NamesInv /\ StrikeInv
      BY InvIsSafe DEF LeakInv
    <3>3. NamesInv' /\ Onward
      BY <3>1, <3>2, WriteNames
    <3> QED BY <3>1, <3>2, <3>3, OnwardStrikes DEF LeakInv, StrikeInv
  <2>2. CASE Next
    BY <2>2, ClusterLeaks, ProvisionerLeaks, NodeReadyLeaks, ReaperLeaks, OrphanLeaks,
       RestartLeaks DEF Next
  <2> QED BY <2>1, <2>2
<1>3. LeakInv => LeaksVisible
  BY DEF LeakInv, NamesInv, NoEntryUnmanaged, LeaksVisible, Leaked, Tracked, InState
<1> QED BY <1>1, <1>2, <1>3, Invariance, PTL DEF Spec
=============================================================================
