------------------------------ MODULE K8sFailures ------------------------------
(***************************************************************************)
(* k8s/failures: what a pod, a container or a deployment says of itself is *)
(* put under one of the names of k8s/failure-modes.md.  All of it is pure. *)
(* The names are taken to where the reasons and the states decide; how a   *)
(* name is refined by what a message says, and events, are not modelled.   *)
(***************************************************************************)

NoFailure == "none"

(* How a container ended, with whether its message tells of an exec format *)
(* error; and its status: the reason that it waits for, how it ended now,  *)
(* when it is terminated, and how it ended the time before (last).         *)
Termination(reason, exit, badFormat) == [reason |-> reason, exit |-> exit, badFormat |-> badFormat]
NeverEnded == Termination("none", 0, FALSE)
Container(state, reason, now, last) == [state |-> state, reason |-> reason, now |-> now, last |-> last]

-----------------------------------------------------------------------------
PullReasons == {"ImagePullBackOff", "ErrImagePull"}
ImageReasons == {"InvalidImageName", "ErrImageNeverPull", "ImageInspectError"}
ConfigReasons == {"CreateContainerConfigError", "CreateContainerError", "RunContainerError", "ContainerCannotRun"}

ClassifyImage(status) ==
  CASE status.state = "waiting" /\ status.reason \in PullReasons -> "ImagePullBackOff"
    [] status.state = "waiting" /\ status.reason \in ImageReasons -> status.reason
    [] OTHER -> NoFailure

TerminationFailure(t, inLoop) ==
  CASE t.reason = "OOMKilled" -> IF inLoop THEN "CrashLoopBackOff/OOMKilled" ELSE "OOMKilled"
    [] t.reason # "OOMKilled" /\ t.badFormat -> "ImageArchitectureMismatch"
    [] OTHER -> IF inLoop THEN "CrashLoopBackOff/AppCrash" ELSE "ContainerExited"

(* Mutant: the loop is named after how the container ended now.            *)
CrashLoopOfState(status) == TerminationFailure(status.now, TRUE)

CrashLoop(status) ==
  IF status.last = NeverEnded THEN "CrashLoopBackOff" ELSE TerminationFailure(status.last, TRUE)

EndedWell(t) == t.reason = "Completed" \/ (t.exit = 0 /\ t.reason = "none")

ClassifyRuntime(status) ==
  CASE status.state = "terminated" /\ ~EndedWell(status.now) -> TerminationFailure(status.now, FALSE)
    [] status.state = "waiting" /\ status.reason = "CrashLoopBackOff" -> CrashLoop(status)
    [] status.state = "waiting" /\ status.reason \in ConfigReasons -> status.reason
    [] OTHER -> NoFailure

ClassifyContainer(status) ==
  IF ClassifyImage(status) # NoFailure THEN ClassifyImage(status) ELSE ClassifyRuntime(status)

-----------------------------------------------------------------------------
(* A pod: its phase, the reason that it is not scheduled for, if any,      *)
(* whether its reason or message tells of an eviction, and whether its     *)
(* condition tells of a disruption.                                        *)
ClassifyPending(pod) ==
  CASE pod.phase = "Pending" /\ pod.unscheduled = "Unschedulable" -> "FailedScheduling"
    [] pod.phase = "Pending" /\ pod.unscheduled = "SchedulingGated" -> "SchedulingGated"
    [] OTHER -> NoFailure

ClassifyNode(pod) ==
  CASE pod.evicted -> "Evicted"
    [] ~pod.evicted /\ pod.disrupted -> "DisruptionTarget"
    [] OTHER -> NoFailure

ClassifyPod(pod) == {ClassifyPending(pod), ClassifyNode(pod)} \ {NoFailure}

(* A deployment: whether its conditions tell of an exceeded progress       *)
(* deadline, and of a replica failure.                                     *)
ClassifyDeployment(d) ==
  (IF d.late THEN {"ProgressDeadlineExceeded"} ELSE {}) \cup (IF d.blocked THEN {"ReplicaFailure"} ELSE {})
=============================================================================
