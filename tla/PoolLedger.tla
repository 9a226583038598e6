----------------------------- MODULE PoolLedger -----------------------------
(***************************************************************************)
(* What status.nodes of a BurstNodePool promises, whoever writes it: a     *)
(* ledger of node names in which each name only moves forward through its  *)
(* life, together with the two counters kept beside it.  There is no       *)
(* cache, no version and no reconciler here; every step is atomic and made *)
(* on the latest ledger.                                                   *)
(*                                                                         *)
(*   Absent -> Pending -> Running -> Cordoned -> Draining -> Terminating   *)
(*      |         |          |           |           |            |        *)
(*      +---------+----------+-----------+-----------+------------+        *)
(*                                                             -> Retired  *)
(***************************************************************************)
EXTENDS Integers, FiniteSets

CONSTANTS Names, MaxNodes

VARIABLES
  life,     \* stage of each name
  idle,     \* names whose idle timer runs
  active,   \* status.activeNodes
  pending   \* status.pendingNodes

ledgerVars == <<life, idle, active, pending>>

Stages == {"Absent", "Pending", "Running", "Cordoned", "Draining",
           "Terminating", "Retired"}

Move(S, stage) == life' = [n \in Names |-> IF n \in S THEN stage ELSE life[n]]

(* Nodes are entered together, within the limit that the counters show. *)
Enter(S) ==
  /\ S # {} /\ \A n \in S : life[n] = "Absent"
  /\ active + pending + Cardinality(S) <= MaxNodes
  /\ Move(S, "Pending")
  /\ pending' = pending + Cardinality(S)
  /\ UNCHANGED <<idle, active>>

(* Names whose launch never makes it into the ledger are used up. *)
Abandon(S) ==
  /\ S # {} /\ \A n \in S : life[n] = "Absent"
  /\ Move(S, "Retired")
  /\ UNCHANGED <<idle, active, pending>>

(* A booted node moves from one counter to the other. *)
Activate(n) ==
  /\ life[n] = "Pending"
  /\ Move({n}, "Running")
  /\ pending' = pending - 1 /\ active' = active + 1
  /\ UNCHANGED idle

(* The idle timer of a Running node starts or is reset. *)
SetTimer(n) ==
  /\ life[n] = "Running"
  /\ idle' \in {idle \cup {n}, idle \ {n}}
  /\ UNCHANGED <<life, active, pending>>

(* The teardown goes through its stages in order, and only from idleness. *)
Wind(n, from, to) ==
  /\ n \in idle /\ life[n] = from
  /\ Move({n}, to)
  /\ UNCHANGED <<idle, active, pending>>

(* An entry is struck off: pending ones are uncounted exactly; the active  *)
(* count may stay too high (orphan cleanup of a Terminating entry).        *)
Strike(n) ==
  /\ life[n] \notin {"Absent", "Retired"}
  /\ Move({n}, "Retired")
  /\ idle' = idle \ {n}
  /\ \/ life[n] = "Pending" /\ pending' = pending - 1 /\ UNCHANGED active
     \/ life[n] # "Pending" /\ active' = active - 1 /\ UNCHANGED pending
     \/ life[n] = "Terminating" /\ UNCHANGED <<active, pending>>

LedgerInit ==
  /\ life = [n \in Names |-> "Absent"]
  /\ idle = {} /\ active = 0 /\ pending = 0

(* A step changes the ledger. *)
LedgerNext ==
  /\ ledgerVars' # ledgerVars
  /\ \/ \E S \in SUBSET Names : Enter(S) \/ Abandon(S)
     \/ \E n \in Names :
          \/ Activate(n) \/ SetTimer(n) \/ Strike(n)
          \/ Wind(n, "Running", "Cordoned")
          \/ Wind(n, "Cordoned", "Draining")
          \/ Wind(n, "Draining", "Terminating")

LedgerSpec == LedgerInit /\ [][LedgerNext]_ledgerVars
=============================================================================
