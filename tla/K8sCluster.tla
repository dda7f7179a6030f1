----------------------------- MODULE K8sCluster -----------------------------
(***************************************************************************)
(* What the deploy watcher can observe of a Kubernetes cluster: one        *)
(* Deployment object, its newest ReplicaSet, its pods, the status that the *)
(* deployment controller publishes with a delay, and the events of the     *)
(* namespace.  Everything here is outside the repository.                  *)
(***************************************************************************)
EXTENDS Naturals, Sequences

(* One bound for everything would make the state space the product of      *)
(* unrelated parts.  A scenario bounds the generations of the Deployment,  *)
(* its replicas, the events of the namespace, how often the Deployment is  *)
(* deleted and how many API calls fail.                                    *)
CONSTANT Scenarios

ASSUME ClusterAssumption ==
  \A s \in Scenarios :
    /\ s.generations \in Nat \ {0, 1} /\ s.replicas \in Nat \ {0}
    /\ s.events \in Nat \ {0} /\ s.deletes \in Nat /\ s.failures \in Nat

VARIABLES
  scenario,   \* the bounds, which never change
  object,     \* the Deployment: [exists, deletes, generation, template, spec]
  revisions,  \* the ReplicaSets by revision: how many events precede the creation of each
  pods,       \* pods of older templates, of the current one, and how many of those are ready
  status,     \* the status of the Deployment as last published
  completed,  \* the generations that were fully rolled out when their status was published
  events      \* event -> whether it is about an object of the app ("ours") or not

clusterVars == <<scenario, object, revisions, pods, status, completed, events>>

(* Generation 2 was just pushed over a healthy generation 1.  Revisions    *)
(* count the templates only, so there may be fewer of them: the previous   *)
(* ReplicaSet is gone.  One event is older than generation 2.              *)
ClusterInit ==
  /\ scenario \in Scenarios
  /\ object = [exists |-> TRUE, deletes |-> 0, generation |-> 2, template |-> "mine", spec |-> 1]
  /\ revisions \in {<<1>>, <<0, 1>>}
  /\ pods = [old |-> 1, new |-> 0, ready |-> 0]
  /\ status = [observed |-> 1, updated |-> 1, total |-> 1, available |-> 1,
               timedOut |-> FALSE]
  /\ completed = {1}
  /\ events = <<"ours">>

(* Someone changes the pod template: a new generation and a new revision.  *)
PushTemplate ==
  /\ object.exists
  /\ object.generation < scenario.generations
  /\ object' = [object EXCEPT !.generation = @ + 1, !.template = "other"]
  /\ revisions' = Append(revisions, Len(events))
  /\ pods' = [old |-> pods.old + pods.new, new |-> 0, ready |-> 0]
  /\ UNCHANGED <<status, completed, events>>

(* An autoscaler changes the replicas: a new generation, no new template.  *)
Scale ==
  /\ object.exists
  /\ object.generation < scenario.generations
  /\ \E n \in (1..scenario.replicas) \ {object.spec} :
       object' = [object EXCEPT !.generation = @ + 1, !.spec = n]
  /\ UNCHANGED <<revisions, pods, status, completed, events>>

Delete ==
  /\ object.exists
  /\ object.deletes < scenario.deletes
  /\ object' = [object EXCEPT !.exists = FALSE, !.deletes = @ + 1]
  /\ UNCHANGED <<revisions, pods, status, completed, events>>

(* Created again under the same name, the Deployment counts from 1.        *)
Recreate ==
  /\ ~object.exists
  /\ object' = [object EXCEPT !.exists = TRUE, !.generation = 1, !.template = "other", !.spec = 1]
  /\ revisions' = <<Len(events)>>
  /\ pods' = [old |-> 0, new |-> 0, ready |-> 0]
  /\ status' = [observed |-> 0, updated |-> 0, total |-> 0, available |-> 0,
                timedOut |-> FALSE]
  /\ completed' = {}
  /\ UNCHANGED events

PodMoves ==
  /\ \/ pods.new < object.spec /\ pods' = [pods EXCEPT !.new = @ + 1]
     \/ pods.ready < pods.new /\ pods' = [pods EXCEPT !.ready = @ + 1]
     \/ pods.ready > 0 /\ pods' = [pods EXCEPT !.ready = @ - 1]
     \/ pods.old > 0 /\ pods' = [pods EXCEPT !.old = @ - 1]
     \/ /\ pods.new > object.spec
        /\ pods' = [pods EXCEPT !.new = @ - 1,
                                !.ready = IF @ > pods.new - 1 THEN @ - 1 ELSE @]
  /\ UNCHANGED <<object, revisions, status, completed, events>>

RolledOut == pods.old = 0 /\ pods.new >= object.spec /\ pods.ready = pods.new

(* The controller publishes the status of the newest generation in one     *)
(* write.  Old pods are available too.  Without progress it may give up.   *)
PublishStatus ==
  LET counts == <<pods.new, pods.new + pods.old, pods.ready + pods.old>>
      stuck  == /\ counts = <<status.updated, status.total, status.available>>
                /\ ~RolledOut
  IN  /\ object.exists
      /\ \E gaveUp \in {FALSE} \cup (IF stuck THEN {TRUE} ELSE {}) :
           status' = [observed  |-> object.generation,
                      updated   |-> counts[1],
                      total     |-> counts[2],
                      available |-> counts[3],
                      timedOut  |-> gaveUp]
      /\ completed' = IF RolledOut THEN completed \cup {object.generation} ELSE completed
      /\ UNCHANGED <<object, revisions, pods, events>>

EventHappens ==
  /\ Len(events) < scenario.events
  /\ \E about \in {"ours", "others"} : events' = Append(events, about)
  /\ UNCHANGED <<object, revisions, pods, status, completed>>

ClusterStep ==
  /\ \/ PushTemplate
     \/ Scale
     \/ Delete
     \/ Recreate
     \/ PodMoves
     \/ PublishStatus
     \/ EventHappens
  /\ UNCHANGED scenario

ClusterTypeOK ==
  /\ object \in [exists : BOOLEAN, deletes : 0..scenario.deletes, generation : 1..scenario.generations,
                 template : {"mine", "other"}, spec : 1..scenario.replicas]
  /\ revisions \in Seq(0..scenario.events) /\ Len(revisions) \in 1..object.generation
  /\ pods \in [old : Nat, new : 0..scenario.replicas, ready : 0..scenario.replicas]
  /\ pods.ready <= pods.new
  /\ status \in [observed : 0..scenario.generations, updated : Nat, total : Nat, available : Nat,
                 timedOut : BOOLEAN]
  /\ completed \subseteq 1..scenario.generations
  /\ events \in Seq({"ours", "others"})
=============================================================================
