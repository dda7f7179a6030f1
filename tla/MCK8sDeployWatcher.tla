------------------------- MODULE MCK8sDeployWatcher -------------------------
(* Instances of K8sDeployWatcher for TLC.                                  *)
EXTENDS K8sDeployWatcher

Bounds(gens, reps, evs, dels, fails) ==
  [generations |-> gens, replicas |-> reps, events |-> evs, deletes |-> dels, failures |-> fails]

(* A newer deployment or a scaling; a deletion; events and a failing call. *)
OnePartAtATime == {Bounds(3, 2, 1, 0, 0), Bounds(2, 1, 1, 1, 0), Bounds(2, 1, 2, 0, 1)}

OneFailure == {Bounds(2, 1, 1, 0, 1)}
=============================================================================
