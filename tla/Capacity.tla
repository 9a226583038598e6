------------------------------ MODULE Capacity ------------------------------
(***************************************************************************)
(* What pods request and how many fit on a node (internal/controller/      *)
(* batch.go and the sums of instance_selector.go).  Requests are given as  *)
(* users write them: millicores, MiB and GPUs.                             *)
(***************************************************************************)
EXTENDS Integers, Sequences, FiniteSetsExt, SequencesExt, BatchSizing

(* ScaledValue(resource.Mega) of a quantity of mi MiB: units of 10^6 bytes, *)
(* rounded up (2^20 / 10^6 = 16384 / 15625).                               *)
Megabytes(mi) == CeilDiv(mi * 16384, 15625)

(* What the API server admits: no request is negative. *)
ValidRequests(pod) ==
  /\ IsFiniteSet(DOMAIN pod.containers)
  /\ \A i \in DOMAIN pod.containers :
       \A resource \in DOMAIN pod.containers[i].requests :
         pod.containers[i].requests[resource] \in Nat

(* The amount of a resource each container requests, 0 if it names none. *)
Requests(pod, resource) ==
  [i \in DOMAIN pod.containers |->
     LET requests == pod.containers[i].requests
     IN  IF resource \in DOMAIN requests THEN requests[resource] ELSE 0]

(* The sums over the containers, memory converted one by one. *)
PodResourceRequests(pod) ==
  [cpu    |-> SumFunction(Requests(pod, "cpu")),
   memory |-> SumFunction([i \in DOMAIN pod.containers |->
                             Megabytes(Requests(pod, "memory")[i])])]

PodGPURequests(pod) == SumFunction(Requests(pod, "gpu"))

(* The largest request of each kind, not necessarily of one pod. *)
MaxPodRequirements(pods) ==
  [cpu    |-> Max({0} \cup {PodResourceRequests(p).cpu : p \in pods}),
   memory |-> Max({0} \cup {PodResourceRequests(p).memory : p \in pods}),
   gpu    |-> Max({0} \cup {PodGPURequests(p) : p \in pods})]

(* Mutation of EstimatePodsPerNode: memory is not looked at. *)
EstimateByCPU(pods, capacity) ==
  LET most == MaxPodRequirements(pods)
  IN  IF most.cpu = 0 THEN 1 ELSE Max({1, capacity.cpu \div most.cpu})

(* How often the largest CPU and the largest memory request go into the    *)
(* capacity; at least once.  GPUs are not looked at.                       *)
EstimatePodsPerNode(pods, capacity) ==
  LET most  == MaxPodRequirements(pods)
      times == {capacity[r] \div most[r] : r \in {x \in {"cpu", "memory"} : most[x] > 0}}
  IN  IF pods = {} THEN 0
      ELSE IF times = {} THEN 1 ELSE Max({1, Min(times)})
=============================================================================
