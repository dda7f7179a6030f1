----------------------------- MODULE MCDeployers -----------------------------
EXTENDS Deployers, TLC

(* Deploys, the versions they deploy and the files they push are           *)
(* interchangeable.                                                        *)
Interchangeable == Permutations(Deploys) \cup Permutations(Versions) \cup Permutations(Files)
=============================================================================
