------------------------ MODULE MCK8sServiceWatcher ------------------------
(* Instances of K8sServiceWatcher for TLC.                                 *)
EXTENDS K8sServiceWatcher, TLC

Symmetry == Permutations(Addresses)
=============================================================================
