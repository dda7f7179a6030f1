------------------------- MODULE MCEcsDeployLogger -------------------------
(* Instances of EcsDeployLogger for TLC.                                   *)
EXTENDS EcsDeployLogger

(* What this getter answers.                                               *)
EcsReports ==
  {<<"in-progress", FALSE>>, <<"complete", FALSE>>, <<"failed", FALSE>>,
   <<"cancelled", TRUE>>, <<"unknown", TRUE>>}

Bounds(ts, old, all, failed, new) ==
  [tasks |-> ts, oldEvents |-> old, maxEvents |-> all, maxFailures |-> failed, newer |-> new]

(* Failing calls without anything to log; events and a failing call; one   *)
(* task and a failing call, without a newer deployment.                    *)
OnePartAtATime ==
  {Bounds({}, 0, 0, 2, TRUE), Bounds({}, 1, 3, 1, TRUE), Bounds({"t1"}, 0, 0, 1, FALSE)}

(* Nothing but the deployment and the calls.                               *)
CallsOnly == {Bounds({}, 0, 0, 2, TRUE)}
=============================================================================
