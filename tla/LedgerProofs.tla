---------------------------- MODULE LedgerProofs ----------------------------
(***************************************************************************)
(* Proof that the stored status behaves as the ledger of PoolLedger: the   *)
(* four workers, each with a copy of its own age, a restart and every      *)
(* failure, implement a specification with neither copies nor failures.    *)
(***************************************************************************)
EXTENDS BurstControllerProofs

(* A teardown goes on only on a node whose idle timer still runs. *)
TimerRan ==
  \A n \in Names : Life[n] \in {"Cordoned", "Draining", "Terminating"} => n \in pool.idle

LInv == IInv /\ TimerRan

LedgerStep == [Ledger!LedgerNext]_(Ledger!ledgerVars)
----------------------------------------------------------------------------
(* The refinement mapping, before and after a step. *)
LEMMA LifeIs ==
  /\ Life = [n \in Names |->
       IF pool.st[n] # "Absent" THEN pool.st[n]
       ELSE IF instance[n] = "none" \/ n \in InFlight THEN "Absent" ELSE "Retired"]
  /\ Life' = [n \in Names |->
       IF pool'.st[n] # "Absent" THEN pool'.st[n]
       ELSE IF instance'[n] = "none" \/ n \in InFlight' THEN "Absent" ELSE "Retired"]
  BY DEF Life

(* A step of the ledger keeps the timers of the nodes under teardown. *)
LEMMA TimerKept ==
  ASSUME TimerRan, LedgerStep
  PROVE  TimerRan'
<1>1. ASSUME UNCHANGED Ledger!ledgerVars
      PROVE  TimerRan'
  BY <1>1 DEF TimerRan, Ledger!ledgerVars
<1>2. ASSUME NEW S \in SUBSET Names, Ledger!Enter(S) \/ Ledger!Abandon(S)
      PROVE  TimerRan'
  BY <1>2 DEF TimerRan, Ledger!Enter, Ledger!Abandon, Ledger!Move
<1>3. ASSUME NEW n \in Names, Ledger!Activate(n) \/ Ledger!SetTimer(n) \/ Ledger!Strike(n)
      PROVE  TimerRan'
  BY <1>3 DEF TimerRan, Ledger!Activate, Ledger!SetTimer, Ledger!Strike, Ledger!Move
<1>4. ASSUME NEW n \in Names, NEW from, NEW to, Ledger!Wind(n, from, to)
      PROVE  TimerRan'
  BY <1>4 DEF TimerRan, Ledger!Wind, Ledger!Move
<1> QED BY <1>1, <1>2, <1>3, <1>4 DEF LedgerStep, Ledger!LedgerNext

(* A step that leaves the status alone and forgets no started instance is  *)
(* one in which launches are given up, or no step of the ledger.           *)
LEMMA AbandonStep ==
  ASSUME pool' = pool,
         \A n \in Names : instance[n] # "none" /\ n \notin InFlight =>
                            instance'[n] # "none" /\ n \notin InFlight'
  PROVE  LedgerStep
<1> DEFINE S == {n \in Names : Life'[n] # Life[n]}
<1>1. \A n \in S : Life[n] = "Absent" /\ Life'[n] = "Retired"
  BY LifeIs
<1>2. Life' = [n \in Names |-> IF n \in S THEN "Retired" ELSE Life[n]]
  BY <1>1, LifeIs
<1>3. CASE S = {}
  <2>1. Life' = Life
    BY <1>2, <1>3, LifeIs
  <2> QED BY <2>1 DEF LedgerStep, Ledger!ledgerVars
<1>4. CASE S # {}
  <2>1. Ledger!Abandon(S)
    BY <1>1, <1>2, <1>4 DEF Ledger!Abandon, Ledger!Move
  <2>2. S \in SUBSET Names
    OBVIOUS
  <2> QED BY <2>1, <2>2 DEF LedgerStep, Ledger!LedgerNext
<1> QED BY <1>3, <1>4

(* The write of one entry moves one name; without its entry it is Retired. *)
LEMMA OneMoves ==
  ASSUME IInv, NEW n \in Names, pool.st[n] # "Absent",
         UNCHANGED <<instance, prov>>, NEW x,
         x = IF pool'.st[n] = "Absent" THEN "Retired" ELSE pool'.st[n],
         \A m \in Names : m # n => pool'.st[m] = pool.st[m]
  PROVE  Life[n] = pool.st[n] /\ Ledger!Move({n}, x)
<1>1. instance[n] # "none" /\ n \notin InFlight /\ InFlight' = InFlight
  BY DEF IInv, NamesApart, InFlight
<1>2. Life' = [m \in Names |-> IF m \in {n} THEN x ELSE Life[m]]
  BY <1>1, LifeIs
<1> QED BY <1>2, LifeIs DEF Ledger!Move

(* The world around the controller does not touch the status. *)
LEMMA ClusterRefines == LInv /\ ClusterStep => LedgerStep
<1> SUFFICES ASSUME LInv, ClusterStep PROVE LedgerStep
  OBVIOUS
<1>1. pool' = pool /\ InFlight' = InFlight
  BY DEF ClusterStep, ClusterNext, SyncCache, PodArrives, PodSettles, PodLeaves, Bind,
         Register, BecomeReady, Vanish, LoseReady, Tick, Cool, poolVars, workers, provVars,
         InFlight
<1>2. instance \in [Names -> {"none", "booting", "joined", "terminated"}]
  BY DEF LInv, IInv, TypeInv, TypeOK, ClusterTypeOK
<1>3. \A n \in Names : instance[n] # "none" => instance'[n] # "none"
  BY <1>2
     DEF ClusterStep, ClusterNext, SyncCache, PodArrives, PodSettles, PodLeaves, Bind,
         Register, BecomeReady, Vanish, TerminateNode, LoseReady, Tick, Cool, cloudVars
<1> QED BY <1>1, <1>3, AbandonStep

(* The provisioner: a round is entered as a whole, and what is launched    *)
(* but not entered is given up.                                            *)
LEMMA ProvisionerRefines == LInv /\ ProvisionerStep => LedgerStep
<1> SUFFICES ASSUME LInv, ProvisionerStep PROVE LedgerStep
  OBVIOUS
<1> USE DEF poolVars, cloudVars
<1>1. /\ ProvTypeOK /\ pool \in PoolStatus /\ NamesApart /\ ProvRoom
      /\ instance \in [Names -> {"none", "booting", "joined", "terminated"}]
  BY DEF LInv, IInv, TypeInv, TypeOK, ClusterTypeOK
<1>2. ASSUME NEW p \in Pods, ProvSkip(p) \/ ProvBegin(p)
      PROVE  LedgerStep
  <2>1. /\ pool' = pool /\ instance' = instance
        /\ prov' = prov \/ prov'.launched = {}
    BY <1>2 DEF ProvSkip, ProvBegin, provVars
  <2> QED BY <2>1, AbandonStep DEF InFlight
<1>3. ASSUME NEW n \in Names, ProvLaunch(n) \/ ProvLaunchLost(n)
      PROVE  LedgerStep
  <2>1. /\ pool' = pool /\ prov.pc = "launch"
        /\ instance[n] = "none" /\ instance' = [instance EXCEPT ![n] = "booting"]
        /\ prov'.pc = "launch" /\ prov'.launched \in {prov.launched, prov.launched \cup {n}}
    BY <1>1, <1>3 DEF ProvLaunch, ProvLaunchLost, Launching, ProvTypeOK
  <2> QED BY <1>1, <2>1, AbandonStep DEF InFlight
<1>4. CASE ProvLaunchFails \/ ProvPersistFails \/ ProvAnnotate \/ ProvAnnotateFails
  <2>1. /\ pool' = pool /\ instance' = instance
        /\ \/ prov'.pc = prov.pc /\ prov'.launched = prov.launched
           \/ prov'.pc = "idle"
    BY <1>1, <1>4 DEF ProvLaunchFails, Launching, ProvPersistFails, Requeue, ProvAnnotate,
                      ProvAnnotateFails, ProvIdle, ProvTypeOK
  <2> QED BY <2>1, AbandonStep DEF InFlight
<1>5. CASE ProvPersist
  <2> DEFINE L == prov.launched
  <2>1. /\ prov.pc = "launch" /\ prov.left = 0 /\ Fresh("provisioner")
        /\ pool' = WithLaunched(pool, L) /\ instance' = instance
        /\ InFlight = L /\ InFlight' = {}
    BY <1>1, <1>5 DEF ProvPersist, StatusUpdate, InFlight, ProvTypeOK
  <2>2. /\ \A n \in Names : pool'.st[n] = IF n \in L THEN "Pending" ELSE pool.st[n]
        /\ pool'.pending = pool.pending + Cardinality(L)
        /\ pool'.idle = pool.idle /\ pool'.active = pool.active
    BY <1>1, <2>1 DEF WithLaunched, PoolStatus
  <2>3. L \in SUBSET Names /\ \A n \in L : pool.st[n] = "Absent"
    BY <1>1, <2>1 DEF NamesApart, ProvTypeOK
  <2>4. /\ Cardinality(L) \in Nat /\ pool.pending \in Int /\ pool.active \in Int
        /\ pool.active + pool.pending + Cardinality(L) <= MaxNodes
    BY <1>1, <2>1, <2>3, ClusterAssumption, FS_Subset, FS_CardinalityType
       DEF ProvRoom, CurrentNodes, PoolStatus
  <2> HIDE DEF L
  <2>5. /\ \A n \in L : Life[n] = "Absent"
        /\ Life' = [n \in Names |-> IF n \in L THEN "Pending" ELSE Life[n]]
    BY <2>1, <2>2, <2>3, LifeIs
  <2>6. CASE L = {}
    <3>1. Life' = Life /\ pool'.pending = pool.pending
      BY <2>2, <2>4, <2>5, <2>6, LifeIs, FS_EmptySet
    <3> QED BY <2>2, <3>1 DEF LedgerStep, Ledger!ledgerVars
  <2>7. CASE L # {}
    <3>1. Ledger!Cardinality(L) = Cardinality(L)
      BY DEF Cardinality, Ledger!Cardinality
    <3>2. Ledger!Enter(L)
      BY <2>2, <2>4, <2>5, <2>7, <3>1 DEF Ledger!Enter, Ledger!Move
    <3> QED BY <2>3, <3>2 DEF LedgerStep, Ledger!LedgerNext
  <2> QED BY <2>6, <2>7
<1> QED BY <1>2, <1>3, <1>4, <1>5 DEF ProvisionerStep, ProvNext

(* The node-ready reconciler activates a Pending entry or strikes it off. *)
LEMMA NodeReadyRefines == LInv /\ NodeReadyStep => LedgerStep
<1> SUFFICES ASSUME LInv, NodeReadyStep PROVE LedgerStep
  OBVIOUS
<1> USE DEF poolVars, cloudVars
<1>1. /\ pool \in PoolStatus
      /\ instance \in [Names -> {"none", "booting", "joined", "terminated"}]
      /\ UNCHANGED prov
  BY DEF LInv, IInv, TypeInv, TypeOK, ClusterTypeOK, NodeReadyStep, provVars
<1>2. CASE NodeReadyUpdateFails \/ \E n \in Names : LabelNode(n) \/ BootTimedOut(n)
  <2>1. pool' = pool /\ InFlight' = InFlight
    BY <1>1, <1>2 DEF LabelNode, BootTimedOut, NodeReadyUpdateFails, InFlight
  <2>2. \A n \in Names : instance[n] # "none" => instance'[n] # "none"
    BY <1>1, <1>2 DEF LabelNode, BootTimedOut, TerminateNode, NodeReadyUpdateFails
  <2> QED BY <2>1, <2>2, AbandonStep
<1>3. CASE NodeReadyUpdate
  <2> DEFINE m == nodeready.node
  <2>1. m \in Names /\ pool.st[m] = "Pending"
    BY <1>3 DEF NodeReadyUpdate, StatusUpdate, LInv, IInv, TypeInv, WorkersBusy, StillPending
  <2>2. instance' = instance
    BY <1>3 DEF NodeReadyUpdate
  <2> HIDE DEF m
  <2>3. CASE pool' = Promote(pool, m)
    <3>1. /\ pool'.st[m] = "Running" /\ \A n \in Names : n # m => pool'.st[n] = pool.st[n]
          /\ pool'.pending = pool.pending - 1 /\ pool'.active = pool.active + 1
          /\ pool'.idle = pool.idle
      BY <1>1, <2>1, <2>3 DEF Promote, PoolStatus
    <3>2. Life[m] = "Pending" /\ Ledger!Move({m}, "Running")
      BY <1>1, <2>1, <2>2, <3>1, OneMoves DEF LInv
    <3>3. Ledger!Activate(m)
      BY <3>1, <3>2 DEF Ledger!Activate
    <3> QED BY <2>1, <3>3 DEF LedgerStep, Ledger!LedgerNext
  <2>4. CASE pool' = DropPending(pool, m)
    <3>1. /\ pool'.st[m] = "Absent" /\ \A n \in Names : n # m => pool'.st[n] = pool.st[n]
          /\ pool'.pending = pool.pending - 1 /\ pool'.active = pool.active
          /\ pool'.idle = pool.idle \ {m}
      BY <1>1, <2>1, <2>4 DEF DropPending, WithoutEntry, PoolStatus
    <3>2. Life[m] = "Pending" /\ Ledger!Move({m}, "Retired")
      BY <1>1, <2>1, <2>2, <3>1, OneMoves DEF LInv
    <3>3. Ledger!Strike(m)
      BY <3>1, <3>2 DEF Ledger!Strike
    <3> QED BY <2>1, <3>3 DEF LedgerStep, Ledger!LedgerNext
  <2> QED BY <1>3, <2>3, <2>4 DEF NodeReadyUpdate, StatusUpdate, m
<1> QED BY <1>2, <1>3 DEF NodeReadyStep, NodeReadyNext

(* The reaper sets timers, winds a node down stage by stage, and strikes   *)
(* its entry off.                                                          *)
LEMMA ReaperRefines == LInv /\ ReaperStep => LedgerStep
<1> SUFFICES ASSUME LInv, ReaperStep PROVE LedgerStep
  OBVIOUS
<1> USE DEF poolVars, cloudVars
<1>1. /\ pool \in PoolStatus /\ UNCHANGED prov
      /\ instance \in [Names -> {"none", "booting", "joined", "terminated"}]
      /\ reaper.pc # "idle" => reaper.node \in Names
      /\ IInv /\ TimerRan /\ StillTornDown /\ CacheCurrent
  BY DEF LInv, IInv, TypeInv, TypeOK, ClusterTypeOK, WorkersBusy, ReaperStep, provVars
<1>2. CASE ReaperCordon \/ ReaperDrain \/ ReaperTerminate \/ ReaperDelete
           \/ ReaperUpdateFails
  <2>1. pool' = pool /\ InFlight' = InFlight
    BY <1>1, <1>2 DEF ReaperCordon, ReaperDrain, ReaperTerminate, ReaperDelete,
                      ReaperUpdateFails, InFlight
  <2>2. \A n \in Names : instance[n] # "none" => instance'[n] # "none"
    BY <1>1, <1>2 DEF ReaperCordon, ReaperDrain, ReaperTerminate, TerminateNode,
                      ReaperDelete, ReaperUpdateFails
  <2> QED BY <2>1, <2>2, AbandonStep
<1>3. ASSUME NEW n \in Names, ReaperResetTimer(n) \/ ReaperStartTimer(n)
      PROVE  LedgerStep
  <2>1. /\ cache = pool /\ pool.st[n] = "Running" /\ instance' = instance
        /\ \E I \in {pool.idle \ {n}, pool.idle \cup {n}} : pool' = [pool EXCEPT !.idle = I]
    BY <1>1, <1>3 DEF ReaperResetTimer, ReaperStartTimer, Reapable, StatusUpdate, CacheCurrent
  <2>2. /\ pool'.st = pool.st /\ pool'.active = pool.active /\ pool'.pending = pool.pending
        /\ pool'.idle \in {pool.idle \cup {n}, pool.idle \ {n}}
    BY <1>1, <2>1 DEF PoolStatus
  <2>3. Life' = Life /\ Life[n] = "Running"
    BY <1>1, <2>1, <2>2, LifeIs DEF InFlight
  <2>4. Ledger!SetTimer(n)
    BY <2>2, <2>3 DEF Ledger!SetTimer
  <2> QED BY <2>4 DEF LedgerStep, Ledger!LedgerNext
(* A write that moves an entry on whose timer runs. *)
<1>4. ASSUME NEW n \in Names, NEW to \in ActiveStates, instance' = instance,
             pool' = [pool EXCEPT !.st[n] = to], n \in pool.idle, pool.st[n] # "Absent"
      PROVE  Ledger!Wind(n, pool.st[n], to)
  <2>1. /\ pool'.st[n] = to /\ \A m \in Names : m # n => pool'.st[m] = pool.st[m]
        /\ pool'.idle = pool.idle
        /\ pool'.active = pool.active /\ pool'.pending = pool.pending
    BY <1>1, <1>4 DEF PoolStatus
  <2>2. to # "Absent"
    BY <1>4 DEF ActiveStates
  <2>3. Life[n] = pool.st[n] /\ Ledger!Move({n}, to)
    BY <1>1, <1>4, <2>1, <2>2, OneMoves
  <2> QED BY <1>4, <2>1, <2>3 DEF Ledger!Wind
<1>5. ASSUME NEW n \in Names, ReaperBegin(n)
      PROVE  LedgerStep
  <2>1. /\ pool.st[n] = "Running" /\ n \in pool.idle /\ instance' = instance
        /\ pool' = [pool EXCEPT !.st[n] = "Cordoned"]
    BY <1>1, <1>5 DEF ReaperBegin, Reapable, StatusUpdate, CacheCurrent
  <2>2. Ledger!Wind(n, "Running", "Cordoned")
    BY <1>4, <2>1 DEF ActiveStates
  <2> QED BY <2>2 DEF LedgerStep, Ledger!LedgerNext
<1>6. ASSUME NEW pc \in {"markDraining", "markTerminating"}, NEW to \in ActiveStates,
             NEW next, ReaperMark(pc, to, next)
      PROVE  /\ reaper.node \in Names
             /\ Ledger!Wind(reaper.node, TeardownStage[pc], to)
  <2>1. /\ reaper.node \in Names /\ instance' = instance
        /\ pool.st[reaper.node] = TeardownStage[pc]
        /\ pool' = [pool EXCEPT !.st[reaper.node] = to]
    BY <1>1, <1>6 DEF ReaperMark, StatusUpdate, StillTornDown
  <2>2. TeardownStage[pc] \in {"Cordoned", "Draining", "Terminating"}
    BY <1>6 DEF TeardownStage
  <2>3. Life[reaper.node] = pool.st[reaper.node]
    BY <2>1, <2>2, LifeIs
  <2>4. reaper.node \in pool.idle
    BY <1>1, <2>1, <2>2, <2>3 DEF TimerRan
  <2> QED BY <1>4, <2>1, <2>2, <2>4
<1>7. CASE ReaperMarkDraining
  <2>1. reaper.node \in Names /\ Ledger!Wind(reaper.node, "Cordoned", "Draining")
    BY <1>6, <1>7 DEF ReaperMarkDraining, TeardownStage, ActiveStates
  <2> QED BY <2>1 DEF LedgerStep, Ledger!LedgerNext
<1>8. CASE ReaperMarkTerminating
  <2>1. reaper.node \in Names /\ Ledger!Wind(reaper.node, "Draining", "Terminating")
    BY <1>6, <1>8 DEF ReaperMarkTerminating, TeardownStage, ActiveStates
  <2> QED BY <2>1 DEF LedgerStep, Ledger!LedgerNext
<1>9. CASE ReaperRemove
  <2> DEFINE m == reaper.node
  <2>1. /\ m \in Names /\ instance' = instance
        /\ pool.st[m] = "Terminating" /\ pool' = DropReaped(pool, m)
    BY <1>1, <1>9 DEF ReaperRemove, StatusUpdate, StillTornDown, TeardownStage
  <2> HIDE DEF m
  <2>2. pool.active >= 1 /\ pool.active \in Int
    <3>1. m \in InState(pool, ActiveStates)
      BY <2>1 DEF InState, ActiveStates
    <3>2. IsFiniteSet(InState(pool, ActiveStates))
      BY ClusterAssumption, FS_Subset DEF InState
    <3>3. Cardinality(InState(pool, ActiveStates)) # 0
      BY <3>1, <3>2, FS_EmptySet
    <3> QED BY <1>1, <3>2, <3>3, FS_CardinalityType DEF IInv, ActiveCovers, PoolStatus
  <2>3. /\ pool'.st[m] = "Absent" /\ \A n \in Names : n # m => pool'.st[n] = pool.st[n]
        /\ pool'.pending = pool.pending /\ pool'.active = pool.active - 1
        /\ pool'.idle = pool.idle \ {m}
    BY <1>1, <2>1, <2>2 DEF DropReaped, WithoutEntry, PoolStatus
  <2>4. Life[m] = "Terminating" /\ Ledger!Move({m}, "Retired")
    BY <1>1, <2>1, <2>3, OneMoves
  <2>5. Ledger!Strike(m)
    BY <2>3, <2>4 DEF Ledger!Strike
  <2> QED BY <2>1, <2>5 DEF LedgerStep, Ledger!LedgerNext
<1> QED
  BY <1>2, <1>3, <1>5, <1>7, <1>8, <1>9 DEF ReaperStep, ReaperNext

(* The orphan detector strikes off an entry in whatever state it is; only  *)
(* a Terminating one is left on its counter.                               *)
LEMMA OrphanRefines == LInv /\ OrphanStep => LedgerStep
<1> SUFFICES ASSUME LInv, OrphanStep PROVE LedgerStep
  OBVIOUS
<1> USE DEF clusterVars, poolVars, cloudVars
<1>1. /\ pool \in PoolStatus /\ UNCHANGED prov
      /\ instance \in [Names -> {"none", "booting", "joined", "terminated"}]
      /\ IInv
  BY DEF LInv, IInv, TypeInv, TypeOK, ClusterTypeOK, OrphanStep, provVars
<1>2. CASE ~ OrphanClean
  <2>1. pool' = pool /\ InFlight' = InFlight
    BY <1>1, <1>2 DEF OrphanStep, OrphanNext, OrphanListCloud, OrphanListNodes, OrphanSkip,
                      OrphanTerminate, OrphanDelete, OrphanCleanFails, InFlight
  <2>2. \A n \in Names : instance[n] # "none" => instance'[n] # "none"
    BY <1>1, <1>2 DEF OrphanStep, OrphanNext, OrphanListCloud, OrphanListNodes, OrphanSkip,
                      OrphanTerminate, TerminateNode, OrphanDelete, OrphanCleanFails
  <2> QED BY <2>1, <2>2, AbandonStep
<1>3. CASE OrphanClean
  <2> DEFINE m == orphan.name
  <2>1. /\ m \in Names /\ pool.st[m] # "Absent" /\ instance' = instance
        /\ pool' = DropOrphan(pool, m)
    BY <1>1, <1>3
       DEF OrphanClean, StatusUpdate, Tracked, IInv, TypeInv, WorkersBusy, CacheCurrent
  <2> HIDE DEF m
  <2>2. /\ pool.pending \in Int /\ pool.active \in Int
        /\ pool.st[m] = "Pending" => pool.pending >= 1
        /\ pool.st[m] \in ActiveStates => pool.active >= 1
    <3>1. \A X : m \in InState(pool, X) =>
                   Cardinality(InState(pool, X)) \in Nat /\ Cardinality(InState(pool, X)) >= 1
      <4> SUFFICES ASSUME NEW X, m \in InState(pool, X)
                   PROVE  /\ Cardinality(InState(pool, X)) \in Nat
                          /\ Cardinality(InState(pool, X)) >= 1
        OBVIOUS
      <4>1. IsFiniteSet(InState(pool, X))
        BY ClusterAssumption, FS_Subset DEF InState
      <4> QED BY <4>1, FS_CardinalityType, FS_EmptySet
    <3>2. pool.pending = Cardinality(InState(pool, {"Pending"}))
      BY <1>1 DEF IInv, PendingExact
    <3>3. pool.active >= Cardinality(InState(pool, ActiveStates))
      BY <1>1 DEF IInv, ActiveCovers
    <3>4. pool.st[m] = "Pending" => m \in InState(pool, {"Pending"})
      BY <2>1 DEF InState
    <3>5. pool.st[m] \in ActiveStates => m \in InState(pool, ActiveStates)
      BY <2>1 DEF InState
    <3> QED BY <1>1, <3>1, <3>2, <3>3, <3>4, <3>5 DEF PoolStatus
  <2>3. /\ pool'.st[m] = "Absent" /\ \A n \in Names : n # m => pool'.st[n] = pool.st[n]
        /\ pool'.idle = pool.idle \ {m}
        /\ pool'.pending = IF pool.st[m] = "Pending" THEN pool.pending - 1 ELSE pool.pending
        /\ pool'.active = IF pool.st[m] \in {"Running", "Cordoned", "Draining"}
                            THEN pool.active - 1 ELSE pool.active
    BY <1>1, <2>1, <2>2 DEF DropOrphan, WithoutEntry, PoolStatus, ActiveStates
  <2>4. Life[m] = pool.st[m] /\ Ledger!Move({m}, "Retired")
    BY <1>1, <2>1, <2>3, OneMoves
  <2>5. pool.st[m] \in {"Pending", "Running", "Cordoned", "Draining", "Terminating"}
    BY <1>1, <2>1 DEF PoolStatus, NodeStates, ActiveStates
  <2>6. Ledger!Strike(m)
    BY <2>3, <2>4, <2>5 DEF Ledger!Strike
  <2> QED BY <2>1, <2>6 DEF LedgerStep, Ledger!LedgerNext
<1> QED BY <1>2, <1>3

(* A restart gives up the launches of the round in progress. *)
LEMMA RestartRefines == LInv /\ Restart => LedgerStep
<1> SUFFICES ASSUME LInv, Restart PROVE LedgerStep
  OBVIOUS
<1>1. pool' = pool /\ instance' = instance /\ InFlight' = {}
  BY DEF Restart, cloudVars, ProvIdle, InFlight
<1> QED BY <1>1, AbandonStep
----------------------------------------------------------------------------
(* Every step of the system is a step of the ledger, or none of its        *)
(* business.                                                               *)
LEMMA StepRefines == LInv /\ [Next]_vars => LedgerStep
<1>1. UNCHANGED vars => LedgerStep
  BY AbandonStep DEF vars, workers, clusterVars, poolVars, cloudVars, provVars, InFlight
<1> QED
  BY <1>1, ClusterRefines, ProvisionerRefines, NodeReadyRefines, ReaperRefines,
     OrphanRefines, RestartRefines DEF Next

(* The status that four workers write from copies of different age, and    *)
(* that survives crashes and refused writes, is one ledger: no write       *)
(* brings an old state back, skips a stage, enters more than the limit     *)
(* allows or counts a node twice.                                          *)
THEOREM LedgerKept == Spec => RefinesLedger
<1>1. Init => Ledger!LedgerInit
  <2> SUFFICES ASSUME Init PROVE Ledger!LedgerInit
    OBVIOUS
  <2>1. /\ pool = [st |-> [n \in Names |-> "Absent"], idle |-> {}, active |-> 0, pending |-> 0]
        /\ \A n \in Names : instance[n] = "none"
    BY DEF Init, ClusterInit
  <2>2. Life = [n \in Names |-> "Absent"]
    BY <2>1, LifeIs
  <2> QED BY <2>1, <2>2 DEF Ledger!LedgerInit
<1>2. Init => TimerRan
  BY <1>1 DEF TimerRan, Ledger!LedgerInit
<1>3. LInv /\ [Next]_vars => TimerRan'
  BY StepRefines, TimerKept DEF LInv
<1>4. IInv /\ TimerRan => LInv
  BY DEF LInv
<1>5. LedgerStep => [Ledger!LedgerNext]_(Ledger!ledgerVars)
  BY DEF LedgerStep
<1> QED
  BY <1>1, <1>2, <1>3, <1>4, <1>5, StepRefines, Invariance, PTL
     DEF Spec, RefinesLedger, Ledger!LedgerSpec
=============================================================================
