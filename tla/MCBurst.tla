------------------------------ MODULE MCBurst ------------------------------
(***************************************************************************)
(* BurstController for TLC: the cfg files give the constants, names and    *)
(* pods as model values.                                                   *)
(***************************************************************************)
EXTENDS BurstController, TLC

(* Names are interchangeable, and pods where all of them or none carry the *)
(* enabled label.                                                          *)
Symmetry == {f @@ g : f \in Permutations(Names), g \in Permutations(Pods)}

(* The same program without the orphan runner, for the run with two pods.  *)
(* At most two machines boot: a third is only launched beyond the limit,   *)
(* or for a place that is free again.  An instance ages while its Node is  *)
(* there and not ready, when NodeReady looks at its age, and only where    *)
(* all three names are not used up.                                        *)
ReconcilersBound ==
  /\ Cardinality({n \in Names : instance[n] \in {"joined", "terminated"}}) = 2
       => \A n \in Names : instance'[n] = "joined" => instance[n] = "joined"
  /\ \A n \in Names : age'[n] # age[n] => node[n] # {} /\ ~ IsNodeReady(n)
  /\ (\A n \in Names : instance'[n] # "none") => \A n \in Names : age'[n] = 0

ReconcilersNext == ClusterStep \/ ProvisionerStep \/ NodeReadyStep \/ ReaperStep

ReconcilersSpec == Init /\ [][ReconcilersNext /\ ReconcilersBound]_vars
=============================================================================
