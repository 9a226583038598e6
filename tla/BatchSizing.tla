---------------------------- MODULE BatchSizing ----------------------------
(***************************************************************************)
(* How many nodes one provisioning round asks for                          *)
(* (internal/controller/batch.go).  Only the arithmetic that follows the   *)
(* pods-per-node estimate is here: it is what the reconcilers' accounting  *)
(* rests on.                                                               *)
(***************************************************************************)
EXTENDS Integers

(* math.Ceil(float64(a) / float64(b)) for a >= 0 and b > 0. *)
CeilDiv(a, b) == (a + b - 1) \div b

(* Mutation of CalculateNodesNeeded: the room that is left is not looked at. *)
NodesNeededUnclamped(pods, podsPerNode, currentNodes, maxNodes) ==
  IF currentNodes >= maxNodes THEN 0
  ELSE CeilDiv(pods, IF podsPerNode <= 0 THEN 1 ELSE podsPerNode)

(***************************************************************************)
(* CalculateNodesNeeded, given the number of pending pods and the estimate *)
(* of how many of them fit on one node of the selected type: nothing at or *)
(* above the limit, otherwise the quotient rounded up, clamped to the room *)
(* that is left below MaxNodes and never negative.                         *)
(***************************************************************************)
CalculateNodesNeeded(pods, podsPerNode, currentNodes, maxNodes) ==
  LET perNode   == IF podsPerNode <= 0 THEN 1 ELSE podsPerNode
      needed    == CeilDiv(pods, perNode)
      available == maxNodes - currentNodes
      capped    == IF needed > available THEN available ELSE needed
  IN  IF currentNodes >= maxNodes THEN 0
      ELSE IF capped < 0 THEN 0 ELSE capped
=============================================================================
