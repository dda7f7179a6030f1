------------------------- MODULE CloudRunJobDeploy -------------------------
(***************************************************************************)
(* gcp/cloudrun.JobDeployLogger: the status getter of a Cloud Run job.  A  *)
(* deployment is the long-running operation of the job's update, and each  *)
(* call polls it once.  PollingDeployWatcher drives the getter.            *)
(***************************************************************************)
EXTENDS PollingDeployWatcher

CONSTANT MaxFailures   \* bound on the calls to Google Cloud that fail

ASSUME JobAssumption == MaxFailures \in Nat

VARIABLES
  jobId,      \* the job_id output of the app module: "set" or "empty"
  operation,  \* the operation, at Google Cloud: "running", "succeeded" or "failed"
  failures    \* the calls that failed so far

jobVars == <<jobId, operation, failures>>
vars == <<watchVars, jobVars>>

JobInit ==
  /\ WatchInit
  /\ jobId \in {"set", "empty"}
  /\ operation = "running"
  /\ failures = 0

(* A call fails by itself, or because the caller's context has ended.      *)
CallFails ==
  \/ failures < MaxFailures /\ failures' = failures + 1
  \/ ctx # "live" /\ UNCHANGED failures

-----------------------------------------------------------------------------
(* GetDeployStatus.  The watcher never passes an empty reference.          *)
NoJob ==
  /\ jobId = "empty"
  /\ PollReturns("complete", FALSE)
  /\ UNCHANGED jobVars

ClientFails ==
  /\ jobId = "set"
  /\ CallFails
  /\ PollReturns("unknown", TRUE)
  /\ UNCHANGED <<jobId, operation>>

(* Mutant of the action below.                                             *)
PollFailsAsDone == jobId = "set" /\ CallFails /\ PollReturns("complete", FALSE) /\ UNCHANGED <<jobId, operation>>

(* A Poll that fails leaves the operation not done, and its error is       *)
(* dropped: the caller reads "in-progress".                                *)
PollFails ==
  /\ jobId = "set"
  /\ CallFails
  /\ PollReturns("in-progress", FALSE)
  /\ UNCHANGED <<jobId, operation>>

(* Poll returns an operation's failure as an error; the status is "failed" *)
(* and the error is passed on with it.                                     *)
PollAnswers ==
  /\ jobId = "set"
  /\ \/ operation = "running" /\ PollReturns("in-progress", FALSE)
     \/ operation = "succeeded" /\ PollReturns("complete", FALSE)
     \/ operation = "failed" /\ PollReturns("failed", TRUE)
  /\ UNCHANGED jobVars

GetDeployStatus == NoJob \/ ClientFails \/ PollFails \/ PollAnswers

(* Google Cloud finishes the update of the job.                            *)
OperationEnds ==
  /\ operation = "running"
  /\ operation' \in {"succeeded", "failed"}
  /\ UNCHANGED <<watchVars, jobId, failures>>

JobNext ==
  \/ WatchStep /\ UNCHANGED jobVars
  \/ GetDeployStatus
  \/ OperationEnds
  \/ Returned /\ UNCHANGED jobVars

JobSpec == JobInit /\ [][JobNext]_vars

-----------------------------------------------------------------------------
(* A watch reports success only if there was nothing to watch or the       *)
(* operation succeeded: a failed call to Google Cloud never passes for     *)
(* the end of the operation (GetDeployStatus, job_deploy_logger.go:46).    *)
JobSuccessIsReal ==
  result = "nil" =>
    reference = NoReference \/ jobId = "empty" \/ operation = "succeeded"

(* polling_deploy_watcher.go:52: a deployment that the getter reports as   *)
(* failed ends the watch with ErrFailed.                                   *)
FailedStatusFailsWatch == report[1] = "failed" => result = "ErrFailed"
=============================================================================
