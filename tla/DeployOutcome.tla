---------------------------- MODULE DeployOutcome ----------------------------
(***************************************************************************)
(* What a deploy watcher promises to the command that called it, whatever  *)
(* the platform: the documented return values of app.DeployWatcher.Watch.  *)
(* A watch has one outcome; the outcome is final; every outcome has its    *)
(* own cause, and a verdict of the provider is never overridden by a       *)
(* deadline or a cancellation that happens to be around.                   *)
(*                                                                         *)
(* This module is abstract: it has no polling, no channels and no clock.   *)
(* PollingDeployWatcher and K8sDeployWatcher are shown to implement it.    *)
(***************************************************************************)

VARIABLES
  outcome,    \* how Watch returned, "pending" while it runs
  verdict,    \* what the provider said about the deployment, "none" before
  expired,    \* a deadline has passed: the watcher's own or the caller's
  cancelled   \* the caller cancelled the context

outcomeVars == <<outcome, verdict, expired, cancelled>>

(* nil, ErrFailed, CancelError, and an error of the status query itself.   *)
Verdicts == {"complete", "failed", "cancelled", "error"}

Init ==
  /\ outcome = "pending"
  /\ verdict = "none"
  /\ expired = FALSE
  /\ cancelled = FALSE

(* The environment: deadlines pass and callers cancel at any time.         *)
Expire == expired' = TRUE /\ UNCHANGED <<outcome, verdict, cancelled>>

Cancel == cancelled' = TRUE /\ UNCHANGED <<outcome, verdict, expired>>

(* The caller has nothing to wait for: an empty deployment reference.      *)
Skip ==
  /\ outcome = "pending"
  /\ outcome' = "complete"
  /\ verdict' = "skipped"
  /\ UNCHANGED <<expired, cancelled>>

(* The provider's verdict becomes the outcome in the step it is learned.   *)
Conclude(v) ==
  /\ outcome = "pending"
  /\ outcome' = v
  /\ verdict' = v
  /\ UNCHANGED <<expired, cancelled>>

(* Without a verdict, only a passed deadline ends a watch with a timeout   *)
(* and only a cancelled context ends it as cancelled.                      *)
TimeOut ==
  /\ outcome = "pending"
  /\ expired
  /\ outcome' = "timeout"
  /\ UNCHANGED <<verdict, expired, cancelled>>

Abort ==
  /\ outcome = "pending"
  /\ cancelled
  /\ outcome' = "cancelled"
  /\ UNCHANGED <<verdict, expired, cancelled>>

Next ==
  \/ Expire
  \/ Cancel
  \/ Skip
  \/ \E v \in Verdicts : Conclude(v)
  \/ TimeOut
  \/ Abort

Spec == Init /\ [][Next]_outcomeVars
=============================================================================
