------------------------------ MODULE MCRound ------------------------------
(***************************************************************************)
(* ProvisioningRound for TLC: a catalogue of pools, instance types and     *)
(* pods in which every rule of the matching, every filter of the selection *)
(* and every unit of the sizing makes a difference.                        *)
(***************************************************************************)
EXTENDS ProvisioningRound, TLC

(* Rows of the table in batch.go. *)
Table ==
  "t3.large"    :> [cpu |-> 1800,  memory |-> 7200,   gpu |-> 0, arch |-> "amd64"] @@
  "c6i.xlarge"  :> [cpu |-> 3600,  memory |-> 7200,   gpu |-> 0, arch |-> "amd64"] @@
  "r6i.large"   :> [cpu |-> 1800,  memory |-> 14800,  gpu |-> 0, arch |-> "amd64"] @@
  "m7g.large"   :> [cpu |-> 1800,  memory |-> 7200,   gpu |-> 0, arch |-> "arm64"] @@
  "g5.xlarge"   :> [cpu |-> 3600,  memory |-> 14800,  gpu |-> 1, arch |-> "amd64"] @@
  "p3.8xlarge"  :> [cpu |-> 28800, memory |-> 224000, gpu |-> 4, arch |-> "amd64"]

Plain(names) == {[name |-> t, arch |-> ""] : t \in names}

Burst == [key |-> "burst", op |-> "Exists", value |-> ""]

(* "any" takes every pod with the toleration; "gpu" and "lab" are as       *)
(* specific as each other.                                                 *)
Pools ==
  <<[rules |-> [tolerations |-> {Burst}, labels |-> <<>>, resources |-> {}],
     instanceTypes |-> Plain({"t3.large", "c6i.xlarge", "r6i.large", "m7g.large"}),
     instanceType |-> "", maxNodes |-> 3],
    [rules |-> [tolerations |-> {Burst}, labels |-> <<>>,
                resources |-> {[resource |-> "gpu", op |-> "Exists"]}],
     instanceTypes |-> Plain({"t3.large", "p3.8xlarge", "custom"}),
     instanceType |-> "", maxNodes |-> 2],
    [rules |-> [tolerations |-> {[key |-> "burst", op |-> "Equal", value |-> "yes"]},
                labels |-> "zone" :> "lab", resources |-> {}],
     instanceTypes |-> {}, instanceType |-> "g5.xlarge", maxNodes |-> 1]>>

Container(requests) == [requests |-> requests, limits |-> requests]
Tolerant == {[key |-> "burst", value |-> "yes"]}
Affine(key, value) == <<<<[key |-> key, op |-> "In", values |-> <<value>>]>>>>

(* A pod of two containers; one for amd64, whose 6900 MiB are more than    *)
(* 7200 units of 10^6 bytes; one for arm64; one with a GPU and an affinity *)
(* to the lab.                                                             *)
Shapes ==
  "web"   :> [tolerations |-> Tolerant, terms |-> <<>>,
              containers |-> <<Container([cpu |-> 400, memory |-> 3500]),
                               Container([cpu |-> 100, memory |-> 500])>>] @@
  "large" :> [tolerations |-> Tolerant, terms |-> Affine("arch", "amd64"),
              containers |-> <<Container([cpu |-> 500, memory |-> 6900])>>] @@
  "arm"   :> [tolerations |-> Tolerant, terms |-> Affine("arch", "arm64"),
              containers |-> <<Container([cpu |-> 900])>>] @@
  "train" :> [tolerations |-> Tolerant, terms |-> Affine("zone", "lab"),
              containers |-> <<Container([cpu |-> 1500, gpu |-> 1])>>]

Symmetry == Permutations(Pods)
=============================================================================
