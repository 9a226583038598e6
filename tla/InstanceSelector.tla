-------------------------- MODULE InstanceSelector --------------------------
(***************************************************************************)
(* Which instance types may serve a batch of pods, in which order          *)
(* (internal/controller/instance_selector.go), and which of them a launch  *)
(* ends up with (launchWithFallback).                                      *)
(***************************************************************************)
EXTENDS Capacity

CONSTANT InstanceCapacities   \* known types: [cpu, memory, gpu, arch]

ASSUME CapacityAssumption ==
  \A type \in DOMAIN InstanceCapacities : \A resource \in {"cpu", "memory", "gpu"} :
    InstanceCapacities[type][resource] \in Nat

(* The capacity the batch is sized with when the type is not known. *)
DefaultCapacity == [cpu |-> 1800, memory |-> 7200, gpu |-> 0, arch |-> "amd64"]

Known(type) == type \in DOMAIN InstanceCapacities

GetInstanceCapacity(type) ==
  IF Known(type) THEN InstanceCapacities[type] ELSE DefaultCapacity

(* The pool's list of types, or its single (deprecated) one. *)
ResolveInstanceTypes(spec) ==
  IF spec.instanceTypes # {} THEN spec.instanceTypes
  ELSE IF spec.instanceType # "" THEN {[name |-> spec.instanceType, arch |-> ""]}
  ELSE {}

(* The first value of the first In expression on the architecture. *)
PodArchitecture(pod) ==
  LET exprs == SelectSeq(FlattenSeq(pod.terms),
                         LAMBDA e : e.key = "arch" /\ e.op = "In" /\ e.values # <<>>)
  IN  IF exprs = <<>> THEN "" ELSE Head(Head(exprs).values)

(* That of the first pod that has one.  The cache lists pods in no order,  *)
(* so these are the possible answers.                                      *)
RequiredArchitecture(pods) ==
  LET named == {PodArchitecture(p) : p \in pods} \ {""}
  IN  IF named = {} THEN {""} ELSE named

(* Mutation of InstanceFits: the GPU filter is missing. *)
InstanceFitsNoGPU(type, most, requiredArch) ==
  LET cap == InstanceCapacities[type.name]
  IN  Known(type.name) => cap.cpu >= most.cpu /\ cap.memory >= most.memory

(* The filters on one type; a type that is not in the table passes. *)
InstanceFits(type, most, requiredArch) ==
  LET cap  == InstanceCapacities[type.name]
      arch == IF type.arch = "" THEN cap.arch ELSE type.arch
  IN  Known(type.name) =>
        /\ requiredArch # "" => arch = requiredArch
        /\ most.gpu > 0 => cap.gpu >= most.gpu
        /\ cap.cpu >= most.cpu /\ cap.memory >= most.memory

(* The order of the result: known types first, by CPU and then by memory. *)
SmallerType(a, b) ==
  LET ca == InstanceCapacities[a.name]
      cb == InstanceCapacities[b.name]
  IN  IF ~ Known(a.name) \/ ~ Known(b.name) THEN Known(a.name)
      ELSE ca.cpu < cb.cpu \/ (ca.cpu = cb.cpu /\ ca.memory < cb.memory)

(* The possible results: one for each architecture that may be picked and  *)
(* each order of types that compare equal.                                 *)
SelectInstanceTypes(spec, pods) ==
  UNION {LET fits == {t \in ResolveInstanceTypes(spec) :
                        InstanceFits(t, MaxPodRequirements(pods), arch)}
         IN  {s \in SetToSeqs(fits) :
                \A i, j \in DOMAIN s :
                  i < j => ~ (SmallerType(s[j], s[i]) /\ ~ SmallerType(s[i], s[j]))}
         : arch \in RequiredArchitecture(pods)}

(* Errors of RunInstances after which the next type is tried. *)
IsCapacityError(answer) ==
  answer \in {"InsufficientInstanceCapacity", "InstanceLimitExceeded", "Unsupported"}

(* The types are tried in order, as long as EC2 has no capacity for those  *)
(* before; any other error ends the search.  "none" is a launch that fails. *)
LaunchWithFallback(candidates, answer) ==
  LET tried(i) == \A j \in 1..(i - 1) : IsCapacityError(answer[candidates[j].name])
      started  == {i \in DOMAIN candidates : tried(i) /\ answer[candidates[i].name] = "ok"}
  IN  IF started = {} THEN "none" ELSE candidates[CHOOSE i \in started : TRUE].name
=============================================================================
