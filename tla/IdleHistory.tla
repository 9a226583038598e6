---------------------------- MODULE IdleHistory ----------------------------
(***************************************************************************)
(* BurstController with a history of the idle timers: which Running nodes  *)
(* had a pod since lastPodFinished was set, and have not been empty for a  *)
(* whole cooldown after it.  The controller only sees the moments at which *)
(* the reaper looks.                                                       *)
(***************************************************************************)
EXTENDS BurstController

VARIABLE disturbed   \* nodes with a running timer that had a pod before their
                     \* teardown, and no cooldown after it

idleVars == <<vars, disturbed>>

(* A step of the system: a pod disturbs the running timer of its node, and *)
(* a new timer starts undisturbed.                                         *)
Watched ==
  /\ Next
  /\ disturbed' = {n \in pool'.idle :
                     \/ pool'.st[n] = "Running" /\ PodsOn(n)' # {}
                     \/ n \in disturbed /\ n \in pool.idle}

(* The node has been empty for a cooldown since its last pod. *)
Rest(n) ==
  /\ n \in disturbed /\ pool.st[n] = "Running"
  /\ n \in cooled /\ PodsOn(n) = {}
  /\ disturbed' = disturbed \ {n}
  /\ UNCHANGED vars

IdleSpec ==
  /\ Init /\ disturbed = {}
  /\ [][Watched \/ \E n \in Names : Rest(n)]_idleVars

(* README: the reaper "monitors burst nodes and terminates them after the  *)
(* cooldown period with no running workloads": the machine it terminates   *)
(* has no pod, and its last one was a cooldown before the teardown began.  *)
ReapedIdle ==
  [][reaper.pc = "terminate" /\ reaper'.pc = "delete"
       => PodsOn(reaper.node) = {} /\ reaper.node \notin disturbed]_idleVars
=============================================================================
